---- MODULE Spec2Model ----
(***************************************************************************)
(* Verification model of libpeeler (pappadf/peeler).                       *)
(*                                                                         *)
(* Part I models the peeling driver of lib/peeler.c as a stack machine:    *)
(* every peel_depth / recursive_peel_files activation is a frame, every    *)
(* loop iteration one action, and every malloc/free an entry of `heap`.    *)
(* A byte buffer is described by what the probes and the decoders of the   *)
(* library make of it (a "blob"): which detect functions match, its        *)
(* length, whether the first matching decoder succeeds, and what it yields.*)
(*                                                                         *)
(* A buffer can also hold actual bytes.  The BinHex 4.0 decoder of         *)
(* lib/formats/hqx.c and the four detect functions are modelled byte by    *)
(* byte; HqxSpec runs the driver on known-good BinHex text with one byte   *)
(* replaced.                                                               *)
(*                                                                         *)
(* Part II (DecodeSpec) follows the decoder entry points peel_sit15,       *)
(* peel_cpt and peel_hqx_file step by step, with every allocation and      *)
(* release they make, setjmp handlers included.                            *)
(***************************************************************************)
EXTENDS Integers, Sequences, FiniteSets, TLC

\* peeler.c:18
MAX_PEEL_DEPTH == 32

\* ---- bounds of the explored inputs ------------------------------------
\* longest wrapper chain of an input (must exceed MAX_PEEL_DEPTH)
MaxChain == 34
\* deepest archive-in-wrapper nesting of an input (must exceed MAX_PEEL_DEPTH)
MaxNest == 33

VARIABLES
    input,   \* the caller's buffer handed to peel()
    stack,   \* activation frames, innermost last
    heap,    \* heap[id] = number of times allocation id has been free()d
    ret,     \* value returned by the activation that returned last
    phase,   \* "idle" | "running" | "returned" | "freed"
    hist     \* history of the run (observation only)

vars == <<input, stack, heap, ret, phase, hist>>

\* =========================================================================
\* Blobs: abstract byte buffers
\* =========================================================================

\* probes  : names of the g_formats entries whose detect() matches
\* len     : length in bytes (0 = empty / NULL buffer)
\* ok      : the decoder of the first matching format succeeds
\* reps    : number of identical wrapper layers around `inner`
\* inner   : <<blob>> the fork the innermost of these layers decodes to
\* entries : the directory an archive decoder parses (when ok)
\* nest    : k > 0 for the k-level nested input NestW(k) / NestA(k) below
\* content : <<bytes>> when the buffer is given byte by byte (Bytes below);
\*           the probes and decoders then run on the bytes themselves
Blob(p, n, ok, reps, inner, entries, nest) ==
    [probes |-> p, len |-> n, ok |-> ok, reps |-> reps, inner |-> inner,
     entries |-> entries, nest |-> nest, content |-> <<>>]

\* the buffer holding exactly the bytes s (a sequence over 0..255)
Bytes(s) == [Blob({}, Len(s), FALSE, 0, <<>>, <<>>, 0) EXCEPT !.content = <<s>>]

IsBytes(b) == b.content # <<>>

Raw(n) == Blob({}, n, TRUE, 0, <<>>, <<>>, 0)

\* n wrapper layers of format f around b
Chain(n, f, b) == IF n = 0 THEN b ELSE Blob({f}, b.len + n, TRUE, n, <<b>>, <<>>, 0)

Wrap(f, b) == Chain(1, f, b)

BadWrap(f) == Blob({f}, 1, FALSE, 0, <<>>, <<>>, 0)

Arch(f, es) == Blob({f}, Len(es) + 1, TRUE, 0, <<>>, es, 0)

BadArch(f) == Blob({f}, 1, FALSE, 0, <<>>, <<>>, 0)

\* k levels of a BinHex-wrapped StuffIt archive whose only file is the next
\* level: NestW(k) is the BinHex layer, NestA(k) the archive inside it
NestW(k) == Blob({"hqx"}, 2 * k + 1, TRUE, 0, <<>>, <<>>, k)

NestA(k) == Blob({"sit"}, 2 * k, TRUE, 0, <<>>, <<>>, k)

\* An archive directory entry: declared uncompressed lengths (raw_len) of
\* both forks, the bytes the fork decompressor produces, and whether the
\* decompressor of a fork reports an error.
Entry(nm, draw, d, rraw, rlen, bad) ==
    [name |-> nm, draw |-> draw, data |-> d, rraw |-> rraw, rlen |-> rlen,
     bad |-> bad]

\* entry with a full data fork and no resource fork
DataEntry(nm, d) == Entry(nm, d.len, d, 0, 0, "none")

\* the fork a (successful) wrapper decoder returns for b
Inner(b) ==
    IF b.nest > 0 THEN NestA(b.nest)
    ELSE IF b.reps > 1 THEN [b EXCEPT !.reps = @ - 1, !.len = @ - 1]
    ELSE b.inner[1]

\* the directory a (successful) archive decoder parses from b
Entries(b) ==
    IF b.nest > 1 THEN <<DataEntry("nest", NestW(b.nest - 1))>>
    ELSE IF b.nest = 1 THEN <<DataEntry("nest", Raw(1))>>
    ELSE b.entries

\* =========================================================================
\* Byte level: helpers of internal.h
\* =========================================================================

\* src[i] of the C code (zero-based) for a buffer held as a sequence
At(src, i) == src[i + 1]

\* a local variable of the C code: the value v, computed before the body F
\* that names it is entered
With(v, F(_)) == IF {v} = {} THEN F(v) ELSE F(v)

MinOf(S) == CHOOSE x \in S : \A y \in S : x <= y

\* memcmp(src + off, pat, strlen(pat)) == 0
memcmp0(src, off, pat) == \A k \in 1..Len(pat) : src[off + k] = pat[k]

\* rd16be / rd32be (internal.h) at zero-based offset p
rd16be(buf, p) == At(buf, p) * 256 + At(buf, p + 1)

rd32be(buf, p) ==
    ((At(buf, p) * 256 + At(buf, p + 1)) * 256 + At(buf, p + 2)) * 256
        + At(buf, p + 3)

\* wr16be / wr32be (internal.h)
wr16be(v) == <<(v \div 256) % 256, v % 256>>

wr32be(v) ==
    <<(v \div 16777216) % 256, (v \div 65536) % 256, (v \div 256) % 256,
      v % 256>>

RECURSIVE Xor(_, _)
\* a XOR b on naturals
Xor(a, b) ==
    IF a = 0 THEN b
    ELSE IF b = 0 THEN a
    ELSE ((a + b) % 2) + 2 * Xor(a \div 2, b \div 2)

\* the lookup table of docs/hqx.md C.1
crc16_table ==
    <<
      0, 4129, 8258, 12387, 16516, 20645, 24774, 28903,
      33032, 37161, 41290, 45419, 49548, 53677, 57806, 61935,
      4657, 528, 12915, 8786, 21173, 17044, 29431, 25302,
      37689, 33560, 45947, 41818, 54205, 50076, 62463, 58334,
      9314, 13379, 1056, 5121, 25830, 29895, 17572, 21637,
      42346, 46411, 34088, 38153, 58862, 62927, 50604, 54669,
      13907, 9842, 5649, 1584, 30423, 26358, 22165, 18100,
      46939, 42874, 38681, 34616, 63455, 59390, 55197, 51132,
      18628, 22757, 26758, 30887, 2112, 6241, 10242, 14371,
      51660, 55789, 59790, 63919, 35144, 39273, 43274, 47403,
      23285, 19156, 31415, 27286, 6769, 2640, 14899, 10770,
      56317, 52188, 64447, 60318, 39801, 35672, 47931, 43802,
      27814, 31879, 19684, 23749, 11298, 15363, 3168, 7233,
      60846, 64911, 52716, 56781, 44330, 48395, 36200, 40265,
      32407, 28342, 24277, 20212, 15891, 11826, 7761, 3696,
      65439, 61374, 57309, 53244, 48923, 44858, 40793, 36728,
      37256, 33193, 45514, 41451, 53516, 49453, 61774, 57711,
      4224, 161, 12482, 8419, 20484, 16421, 28742, 24679,
      33721, 37784, 41979, 46042, 49981, 54044, 58239, 62302,
      689, 4752, 8947, 13010, 16949, 21012, 25207, 29270,
      46570, 42443, 38312, 34185, 62830, 58703, 54572, 50445,
      13538, 9411, 5280, 1153, 29798, 25671, 21540, 17413,
      42971, 47098, 34713, 38840, 59231, 63358, 50973, 55100,
      9939, 14066, 1681, 5808, 26199, 30326, 17941, 22068,
      55628, 51565, 63758, 59695, 39368, 35305, 47498, 43435,
      22596, 18533, 30726, 26663, 6336, 2273, 14466, 10403,
      52093, 56156, 60223, 64286, 35833, 39896, 43963, 48026,
      19061, 23124, 27191, 31254, 2801, 6864, 10931, 14994,
      64814, 60687, 56684, 52557, 48554, 44427, 40424, 36297,
      31782, 27655, 23652, 19525, 15522, 11395, 7392, 3265,
      61215, 65342, 53085, 57212, 44955, 49082, 36825, 40952,
      28183, 32310, 20053, 24180, 11923, 16050, 3793, 7920
    >>

RECURSIVE crc16_from(_, _, _)
\* the loop of the byte-at-a-time algorithm (docs/hqx.md C.2) from byte i
\* on; crc is a uint16_t
crc16_from(crc, data, i) ==
    IF i > Len(data) \/ crc > 65535 THEN crc
    ELSE LET index == Xor(crc \div 256, data[i]) % 256
         IN  crc16_from(Xor((crc * 256) % 65536, crc16_table[index + 1]),
                        data, i + 1)

\* crc16_ccitt_update (internal.h; docs/hqx.md C.2): polynomial 0x1021
crc16_ccitt_update(crc, data) == crc16_from(crc, data, 1)

\* crc16_ccitt: initial value 0
crc16_ccitt(data) == crc16_ccitt_update(0, data)

\* =========================================================================
\* Byte level: BinHex 4.0 decoder (hqx.c)
\* =========================================================================

\* hqx.c:31 "(This file must be converted with BinHex"
HQX_PREAMBLE ==
    <<40, 84, 104, 105, 115, 32, 102, 105, 108, 101, 32, 109, 117, 115, 116,
      32, 98, 101, 32, 99, 111, 110, 118, 101, 114, 116, 101, 100, 32, 119,
      105, 116, 104, 32, 66, 105, 110, 72, 101, 120>>

\* hqx.c:34
RLE_MARKER == 144

\* hqx.c:37
HQX_NAME_MAX == 63

\* hqx.c:48-49
\* !"#$%&'()*+,-012345689@ABCDEFGHIJKLMNPQRSTUVXYZ[`abcdefhijklmpqr
hqx_alphabet ==
    <<33, 34, 35, 36, 37, 38, 39, 40, 41, 42, 43, 44, 45, 48, 49, 50, 51, 52,
      53, 54, 56, 57, 64, 65, 66, 67, 68, 69, 70, 71, 72, 73, 74, 75, 76, 77,
      78, 80, 81, 82, 83, 84, 85, 86, 88, 89, 90, 91, 96, 97, 98, 99, 100,
      101, 102, 104, 105, 106, 107, 108, 109, 112, 113, 114>>

\* the messages of decode_abort in hqx.c are kept without their formatted
\* arguments; those of hqx_read_fork (hqx.c:333-334, 362) name the fork
E_FORKCRC(fork_name, empty) ==
    IF empty
    THEN IF fork_name = "data"
         THEN "BinHex: data fork CRC mismatch (empty fork, expected 0x0000)"
         ELSE "BinHex: resource fork CRC mismatch (empty fork, expected 0x0000)"
    ELSE IF fork_name = "data" THEN "BinHex: data fork CRC mismatch"
         ELSE "BinHex: resource fork CRC mismatch"

\* hqx_find_preamble (hqx.c:93-115): offset past the preamble line, or -1
hqx_find_preamble(src) ==
    LET n    == Len(HQX_PREAMBLE)
        len  == Len(src)
        hits == IF len < n THEN {}
                ELSE {i \in 0..(len - n) : memcmp0(src, i, HQX_PREAMBLE)}
    IN  IF hits = {} THEN -1
        ELSE LET j0 == MinOf(hits) + n
                 j1 == MinOf({j \in j0..len :
                                j = len \/ At(src, j) \in {10, 13}})
             IN  MinOf({j \in j1..len : j = len \/ At(src, j) \notin {10, 13}})

\* hqx_find_start_colon (hqx.c:119-127): offset after the colon, or -1
hqx_find_start_colon(src, from) ==
    LET hits == {i \in from..(Len(src) - 1) : At(src, i) = 58}
    IN  IF hits = {} THEN -1 ELSE MinOf(hits) + 1

\* hqx_decoder_init (hqx.c:135-149)
hqx_decoder_init(payload_start) ==
    [src_pos |-> payload_start, accum |-> 0, accum_bits |-> 0,
     rle_marker_seen |-> FALSE, rle_prev |-> 0, rle_pending |-> 0]

\* the reverse lookup table built by hqx_decoder_init (hqx.c:144-148)
rev_table ==
    [ch \in 0..255 |->
        IF \E i \in 1..64 : hqx_alphabet[i] = ch
        THEN (CHOOSE i \in 1..64 : hqx_alphabet[i] = ch) - 1
        ELSE 255]

\* result of a decoder layer: the decoder state after the call, the byte
\* (-1 for EOF) and the message of decode_abort ("" when it returns)
Got(dec, b) == [dec |-> dec, b |-> b, abort |-> ""]

Aborted(dec, msg) == [dec |-> dec, b |-> -1, abort |-> msg]

RECURSIVE hqx_next_char(_, _)
\* hqx_next_char (hqx.c:153-167): [pos, ch]
hqx_next_char(src, pos) ==
    IF pos >= Len(src) THEN [pos |-> pos, ch |-> -1]
    ELSE LET ch == At(src, pos) IN
         IF ch = 58 THEN [pos |-> pos + 1, ch |-> -1]
         ELSE IF ch \in {13, 10, 9, 32} THEN hqx_next_char(src, pos + 1)
         ELSE [pos |-> pos + 1, ch |-> ch]

RECURSIVE hqx_raw_byte(_, _)
\* hqx_raw_byte (hqx.c:172-190).  accum is an unsigned int of which only
\* the low accum_bits (at most 13) bits are ever read: kept modulo 2^16.
hqx_raw_byte(src, dec) ==
    IF dec.accum_bits < 8
    THEN With(hqx_next_char(src, dec.src_pos), LAMBDA c :
           LET d == [dec EXCEPT !.src_pos = c.pos]
           IN  IF c.ch < 0 THEN Got(d, -1)
               ELSE IF rev_table[c.ch] > 63
               THEN Aborted(d, "BinHex: invalid character")
               ELSE hqx_raw_byte(src,
                      [d EXCEPT !.accum = (@ * 64 + rev_table[c.ch]) % 65536,
                                !.accum_bits = @ + 6]))
    ELSE LET nb == dec.accum_bits - 8
         IN  Got([dec EXCEPT !.accum_bits = nb],
                 (dec.accum \div (2 ^ nb)) % 256)

RECURSIVE hqx_decoded_byte(_, _)
\* hqx_decoded_byte (hqx.c:194-236); one more turn of its for (;;) loop
\* is the call itself, as no repeat is pending once a marker is read
hqx_decoded_byte(src, dec) ==
    IF dec.rle_pending > 0
    THEN Got([dec EXCEPT !.rle_pending = @ - 1], dec.rle_prev)
    ELSE
    With(hqx_raw_byte(src, dec), LAMBDA r :
      IF r.abort # "" \/ r.b < 0 THEN r
      ELSE IF r.dec.rle_marker_seen
      THEN LET d == [r.dec EXCEPT !.rle_marker_seen = FALSE] IN
           IF r.b = 0 THEN Got([d EXCEPT !.rle_prev = RLE_MARKER], RLE_MARKER)
           ELSE IF r.b = 1 THEN Aborted(d, "BinHex: illegal RLE count of 1")
           ELSE Got([d EXCEPT !.rle_pending = r.b - 2], d.rle_prev)
      ELSE IF r.b = RLE_MARKER
      THEN hqx_decoded_byte(src, [r.dec EXCEPT !.rle_marker_seen = TRUE])
      ELSE Got([r.dec EXCEPT !.rle_prev = r.b], r.b))

RECURSIVE hqx_read_bytes_ZeroFill(_, _, _, _)
\* hqx_read_bytes without its end-of-stream test: the bytes the stream no
\* longer holds read as zero
hqx_read_bytes_ZeroFill(src, dec, buf, n) ==
    IF n = 0 THEN [dec |-> dec, buf |-> buf, abort |-> ""]
    ELSE With(hqx_decoded_byte(src, dec), LAMBDA r :
           IF r.abort # ""
           THEN [dec |-> r.dec, buf |-> buf, abort |-> r.abort]
           ELSE hqx_read_bytes_ZeroFill(src, r.dec,
                    Append(buf, IF r.b < 0 THEN 0 ELSE r.b), n - 1))

RECURSIVE hqx_read_bytes(_, _, _, _)
\* hqx_read_bytes (hqx.c:240-250), n more bytes after those in buf:
\* [dec, buf, abort]
hqx_read_bytes(src, dec, buf, n) ==
    IF n = 0 THEN [dec |-> dec, buf |-> buf, abort |-> ""]
    ELSE With(hqx_decoded_byte(src, dec), LAMBDA r :
           IF r.abort # ""
           THEN [dec |-> r.dec, buf |-> buf, abort |-> r.abort]
           ELSE IF r.b < 0
           THEN [dec |-> r.dec, buf |-> buf,
                 abort |-> "BinHex: premature end of stream"]
           ELSE hqx_read_bytes(src, r.dec, Append(buf, r.b), n - 1))

\* hqx.c:286-290: CRC over (content + stored CRC) yields zero
HeaderCrcOk(buf) == crc16_ccitt(buf) = 0

\* hqx_parse_header left through decode_abort (hqx.c:268, 288, or inside
\* hqx_read_bytes): no header
NoHdr(d, msg) == [dec |-> d, hdr |-> <<>>, abort |-> msg]

\* hqx_parse_header (hqx.c:258-316): [dec, hdr, abort]
hqx_parse_header(src, dec) ==
    With(hqx_read_bytes(src, dec, <<>>, 1), LAMBDA r1 :
      IF r1.abort # "" THEN NoHdr(r1.dec, r1.abort)
      ELSE LET n == r1.buf[1] IN
        IF n = 0 \/ n > HQX_NAME_MAX
        THEN NoHdr(r1.dec, "BinHex: invalid filename length")
        ELSE With(hqx_read_bytes(src, r1.dec, <<>>, (n + 19) + 2), LAMBDA r2 :
               LET buf == <<n>> \o r2.buf
               IN  IF r2.abort # "" THEN NoHdr(r2.dec, r2.abort)
                   ELSE IF ~HeaderCrcOk(buf)
                   THEN NoHdr(r2.dec, "BinHex: header CRC mismatch")
                   ELSE [dec |-> r2.dec, abort |-> "",
                         hdr |-> [name         |-> SubSeq(buf, 2, 1 + n),
                                  name_len     |-> n,
                                  mac_type     |-> rd32be(buf, 2 + n),
                                  mac_creator  |-> rd32be(buf, 6 + n),
                                  finder_flags |-> rd16be(buf, 10 + n),
                                  data_len     |-> rd32be(buf, 12 + n),
                                  rsrc_len     |-> rd32be(buf, 16 + n)]]))

\* =========================================================================
\* Byte level: detection (hqx.c, bin.c, sit.c)
\* =========================================================================

\* hqx_detect (hqx.c:429-431)
hqx_detect(src) == hqx_find_preamble(src) # -1

\* bin.c:25, 28
MB_BLOCK == 128
MB_NAME_MAX == 63

\* bin_validate (bin.c:93-121) on a 128-byte header
bin_validate(hdr) ==
    /\ At(hdr, 0) = 0
    /\ At(hdr, 74) = 0
    /\ ~(At(hdr, 1) = 0 \/ At(hdr, 1) > MB_NAME_MAX)
    /\ \/ crc16_ccitt(SubSeq(hdr, 1, 124)) = rd16be(hdr, 124)
       \/ At(hdr, 82) = 0

\* bin_detect (bin.c:252-257)
bin_detect(src) == Len(src) >= MB_BLOCK /\ bin_validate(src)

\* sit.c:45, 551-553
SIT_CLASSIC_HDR_SIZE == 22

classic_sigs ==
    { <<83, 73, 84, 33>>, <<83, 84, 52, 54>>, <<83, 84, 53, 48>>,
      <<83, 84, 54, 48>>, <<83, 84, 54, 53>>, <<83, 84, 105, 110>>,
      <<83, 84, 105, 50>>, <<83, 84, 105, 51>>, <<83, 84, 105, 52>> }

\* find_classic_magic (sit.c:559-573): offset of the archive, or -1
find_classic_magic(src) ==
    LET hits == IF Len(src) < SIT_CLASSIC_HDR_SIZE THEN {}
                ELSE {off \in 0..(Len(src) - 14) :
                        /\ memcmp0(src, off + 10, <<114, 76, 97, 117>>)
                        /\ \E s \in classic_sigs : memcmp0(src, off, s)}
    IN  IF hits = {} THEN -1 ELSE MinOf(hits)

\* find_sit5_magic (sit.c:717-731): "StuffIt (c)1997-" and, 20 bytes in,
\* " Aladdin Systems, Inc., http://www.aladdinsys.com/StuffIt/"
find_sit5_magic(src) ==
    LET hits == IF Len(src) < 80 THEN {}
                ELSE {off \in 0..(Len(src) - 80) :
                        /\ memcmp0(src, off,
                              <<83, 116, 117, 102, 102, 73, 116, 32, 40, 99,
                                41, 49, 57, 57, 55, 45>>)
                        /\ memcmp0(src, off + 20,
                              <<32, 65, 108, 97, 100, 100, 105, 110, 32, 83,
                                121, 115, 116, 101, 109, 115, 44, 32, 73, 110,
                                99, 46, 44, 32, 104, 116, 116, 112, 58, 47,
                                47, 119, 119, 119, 46, 97, 108, 97, 100, 100,
                                105, 110, 115, 121, 115, 46, 99, 111, 109, 47,
                                83, 116, 117, 102, 102, 73, 116, 47>>)}
    IN  IF hits = {} THEN -1 ELSE MinOf(hits)

\* sit_detect (sit.c:1050-1054)
sit_detect(src) == find_classic_magic(src) >= 0 \/ find_sit5_magic(src) >= 0

\* bin.c:330-331
CP_MAGIC == 1
CP_VOLUME_SINGLE == 1

\* cpt_detect (bin.c:1116-1126)
cpt_detect(src) ==
    /\ ~(Len(src) < 8)
    /\ ~(At(src, 0) # CP_MAGIC \/ At(src, 1) # CP_VOLUME_SINGLE)
    /\ ~(rd32be(src, 4) < 8 \/ rd32be(src, 4) > 268435456)

\* =========================================================================
\* Handler table and detection (peeler.c:26-47)
\* =========================================================================

g_formats ==
    << [name |-> "hqx", kind |-> "WRAPPER"],
       [name |-> "bin", kind |-> "WRAPPER"],
       [name |-> "sit", kind |-> "ARCHIVE"],
       [name |-> "cpt", kind |-> "ARCHIVE"] >>

g_num_formats == Len(g_formats)

\* every probe rejects an empty buffer (hqx.c:95, bin.c:253, sit.c:560,
\* bin.c:1117)
detect(i, b) ==
    IF IsBytes(b)
    THEN CASE g_formats[i].name = "hqx" -> hqx_detect(b.content[1])
           [] g_formats[i].name = "bin" -> bin_detect(b.content[1])
           [] g_formats[i].name = "sit" -> sit_detect(b.content[1])
           [] g_formats[i].name = "cpt" -> cpt_detect(b.content[1])
    ELSE b.len > 0 /\ g_formats[i].name \in b.probes

\* index of the first matching handler, 0 for NULL
detect_format(b) ==
    IF \E i \in 1..g_num_formats : detect(i, b)
    THEN CHOOSE i \in 1..g_num_formats :
            detect(i, b) /\ \A j \in 1..(i - 1) : ~detect(j, b)
    ELSE 0

FmtKind(i) == IF i = 0 THEN "NONE" ELSE g_formats[i].kind

\* =========================================================================
\* Heap, buffers, files, lists
\* =========================================================================

NULL == 0

\* malloc/calloc: a fresh allocation id
NewId(h) == Len(h) + 1
Alloc(h) == Append(h, 0)

\* free(): NULL-safe; counts every release of the same allocation
Free(h, id) == IF id = NULL THEN h ELSE [h EXCEPT ![id] = @ + 1]

ZeroBuf == [data |-> NULL, size |-> 0, owned |-> FALSE, bytes |-> <<>>]

OwnedBuf(id, b) == [data |-> id, size |-> b.len, owned |-> TRUE, bytes |-> <<b>>]

ZeroFile == [name |-> "", data_fork |-> ZeroBuf, resource_fork |-> ZeroBuf]

ZeroList == [files |-> NULL, count |-> 0, items |-> <<>>]

\* peel_free (peeler.c:293-301): the heap after releasing the buffer
peel_free(h, buf) == IF buf.owned THEN Free(h, buf.data) ELSE h

RECURSIVE FreeFiles(_, _, _)
\* the loop of peel_file_list_free (peeler.c:308-311) from index i on
FreeFiles(h, items, i) ==
    IF i > Len(items) THEN h
    ELSE FreeFiles(peel_free(peel_free(h, items[i].data_fork),
                             items[i].resource_fork), items, i + 1)

\* peel_file_list_free (peeler.c:304-314): heap after the call; the list
\* itself becomes ZeroList
peel_file_list_free(h, list) ==
    Free(FreeFiles(h, list.items, 1), list.files)


\* =========================================================================
\* Error objects (err.c)
\* =========================================================================

\* make_err (err.c:23-34): malloc of the error object either succeeds
\* (`mem`) and yields a fresh object, or fails and make_err returns NULL.
make_err(h, mem) ==
    IF mem THEN [err |-> NewId(h), heap |-> Alloc(h)]
    ELSE [err |-> NULL, heap |-> h]

\* peel_err_free (err.c:58-60)
peel_err_free(h, e) == Free(h, e)

\* =========================================================================
\* Byte level: BinHex 4.0 forks and entry point (hqx.c)
\* =========================================================================

\* grow_init (internal.h): storage for the fork is allocated
grow_init(h) == [data |-> NewId(h), heap |-> Alloc(h)]

\* grow_free (internal.h): release without producing a peel_buf_t
grow_free(h, g) == Free(h, g.data)

\* grow_finish (internal.h): the storage becomes an owned peel_buf_t
grow_finish(g, bytes) == OwnedBuf(g.data, Bytes(bytes))

\* the fork CRC check without the check
ForkCrcOk_Skipped(data, crc_bytes) == TRUE

\* hqx.c:358-360: CRC over fork content, then over the stored CRC bytes
ForkCrcOk(data, crc_bytes) ==
    crc16_ccitt_update(crc16_ccitt(data), crc_bytes) = 0

\* hqx_read_fork leaves without a fork buffer: out stays zeroed (hqx.c:328)
NoFork(dec, h, msg) == [dec |-> dec, buf |-> ZeroBuf, heap |-> h, abort |-> msg]

\* hqx_read_fork (hqx.c:325-366): [dec, buf, heap, abort].  decode_abort
\* leaves through longjmp, so whatever is allocated at that point and not
\* released before the call stays allocated.
hqx_read_fork(h, src, dec, fork_len, fork_name) ==
    IF fork_len = 0
    THEN With(hqx_read_bytes(src, dec, <<>>, 2), LAMBDA c :
           IF c.abort # "" THEN NoFork(c.dec, h, c.abort)
           ELSE IF rd16be(c.buf, 0) # 0
           THEN NoFork(c.dec, h, E_FORKCRC(fork_name, TRUE))
           ELSE NoFork(c.dec, h, ""))
    ELSE LET gbuf == grow_init(h) IN
         With(hqx_read_bytes(src, dec, <<>>, fork_len), LAMBDA r :
           IF r.abort # "" THEN NoFork(r.dec, gbuf.heap, r.abort)
           ELSE With(hqx_read_bytes(src, r.dec, <<>>, 2), LAMBDA c :
                  IF c.abort # "" THEN NoFork(c.dec, gbuf.heap, c.abort)
                  ELSE IF ~ForkCrcOk(r.buf, c.buf)
                  THEN NoFork(c.dec, grow_free(gbuf.heap, gbuf),
                              E_FORKCRC(fork_name, FALSE))
                  ELSE [dec |-> c.dec, buf |-> grow_finish(gbuf, r.buf),
                        heap |-> gbuf.heap, abort |-> ""]))

\* hqx_decode left through decode_abort (hqx.c:379, 385, or inside a
\* callee): the longjmp releases nothing
HqxAbort(hp, msg) == [file |-> ZeroFile, heap |-> hp, abort |-> msg]

\* hqx_decode (hqx.c:374-422): [file, heap, abort]
hqx_decode(h, src) ==
    With(hqx_find_preamble(src), LAMBDA after_preamble :
      IF after_preamble = -1 THEN HqxAbort(h, "BinHex: preamble not found")
      ELSE With(hqx_find_start_colon(src, after_preamble),
                LAMBDA payload_start :
        IF payload_start = -1
        THEN HqxAbort(h, "BinHex: no starting colon found")
        ELSE With(hqx_parse_header(src, hqx_decoder_init(payload_start)),
                  LAMBDA hd :
          IF hd.abort # "" THEN HqxAbort(h, hd.abort)
          ELSE With(hqx_read_fork(h, src, hd.dec, hd.hdr.data_len, "data"),
                    LAMBDA df :
            IF df.abort # "" THEN HqxAbort(df.heap, df.abort)
            ELSE With(hqx_read_fork(df.heap, src, df.dec, hd.hdr.rsrc_len,
                                    "resource"),
                      LAMBDA rf :
              IF rf.abort # "" THEN HqxAbort(rf.heap, rf.abort)
              ELSE [file |-> [name |-> hd.hdr.name, data_fork |-> df.buf,
                              resource_fork |-> rf.buf],
                    heap |-> rf.heap, abort |-> ""])))))

\* peel_hqx (hqx.c:440-456): the data fork; the resource fork is freed
peel_hqx(h, src, mem) ==
    With(hqx_decode(h, src), LAMBDA d :
      IF d.abort # ""
      THEN LET m == make_err(d.heap, mem)
           IN  [buf |-> ZeroBuf, err |-> m.err, heap |-> m.heap,
                failed |-> TRUE, msg |-> d.abort]
      ELSE [buf |-> d.file.data_fork, err |-> NULL,
            heap |-> peel_free(d.heap, d.file.resource_fork),
            failed |-> FALSE, msg |-> ""])

\* peel_hqx_file (hqx.c:459-469): both forks and the name
peel_hqx_file(h, src, mem) ==
    With(hqx_decode(h, src), LAMBDA d :
      IF d.abort # ""
      THEN LET m == make_err(d.heap, mem)
           IN  [file |-> ZeroFile, err |-> m.err, heap |-> m.heap,
                failed |-> TRUE, msg |-> d.abort]
      ELSE [file |-> d.file, err |-> NULL, heap |-> d.heap,
            failed |-> FALSE, msg |-> ""])

\* =========================================================================
\* Results of the decoders, as the driver sees them
\* =========================================================================

\* the bytes a buffer points at, as a blob (NULL/0 is the empty blob)
BufBlob(buf) == IF buf.bytes = <<>> THEN Raw(0) ELSE buf.bytes[1]

\* n allocations that are never released
Lost(h, n) == h \o [k \in 1..n |-> 0]

\* peel_hqx / peel_bin (hqx.c:440-456, bin.c:267-295): one fork as a flat
\* owned buffer, a zero buffer when that fork is empty, or a zero buffer
\* and *err = make_err(...) when the decode aborts.  `failed` records that
\* the abort path was taken.  `lost`: how many buffers the aborted decode
\* had allocated and not released (hqx_decode: the fork being read and the
\* data fork already read; bin_decode releases its forks before it aborts).
peel_wrapper(h, b, mem, lost) ==
    IF IsBytes(b) THEN peel_hqx(h, b.content[1], mem)
    ELSE IF b.ok
    THEN IF Inner(b).len = 0
         THEN [buf |-> ZeroBuf, err |-> NULL, heap |-> h, failed |-> FALSE,
               msg |-> ""]
         ELSE [buf |-> OwnedBuf(NewId(h), Inner(b)), err |-> NULL,
               heap |-> Alloc(h), failed |-> FALSE, msg |-> ""]
    ELSE LET m == make_err(Lost(h, lost), mem)
         IN  [buf |-> ZeroBuf, err |-> m.err, heap |-> m.heap, failed |-> TRUE,
              msg |-> "decode failed"]

\* an entry is listed when a fork has a non-zero declared length
\* (sit.c:980-981, 998-1000; bin.c:1172, 1206)
EntryListed(e) == e.draw > 0 \/ e.rraw > 0

RECURSIVE CountListed(_, _)
CountListed(es, i) ==
    IF i > Len(es) THEN 0
    ELSE (IF EntryListed(es[i]) THEN 1 ELSE 0) + CountListed(es, i + 1)

\* decompress_fork / cp_decompress_fork for the data fork of entry e: the
\* output buffer is allocated for the declared length and holds the bytes
\* actually produced (sit.c:459, 543; bin.c:1096, 1106)
DataForkOf(h, e) == OwnedBuf(NewId(h), e.data)

RsrcForkOf(h, e) == OwnedBuf(NewId(h), Raw(e.rlen))

RECURSIVE BuildFiles(_, _, _, _)
\* the fork loop of build_file_list (sit.c:993-1040) and of peel_cpt
\* (bin.c:1201-1251) from entry i on: [ok, items, heap].  On a fork error
\* every fork decoded so far is released (sit.c:1013-1019, 1027-1035;
\* bin.c:1188-1197).
BuildFiles(h, es, i, items) ==
    IF i > Len(es) THEN [ok |-> TRUE, items |-> items, heap |-> h]
    ELSE LET e == es[i] IN
      IF ~EntryListed(e) THEN BuildFiles(h, es, i + 1, items)
      ELSE
        LET hasD == e.draw > 0
            hasR == e.rraw > 0
            d    == IF hasD THEN DataForkOf(h, e) ELSE ZeroBuf
            h1   == IF hasD THEN Alloc(h) ELSE h
            r    == IF hasR THEN RsrcForkOf(h1, e) ELSE ZeroBuf
            h2   == IF hasR THEN Alloc(h1) ELSE h1
            f    == [name |-> e.name, data_fork |-> d, resource_fork |-> r]
        IN  IF hasD /\ e.bad = "data"
            THEN [ok |-> FALSE, items |-> <<>>,
                  heap |-> FreeFiles(h, items, 1)]
            ELSE IF hasR /\ e.bad = "rsrc"
            THEN [ok |-> FALSE, items |-> <<>>,
                  heap |-> FreeFiles(peel_free(h1, d), items, 1)]
            ELSE BuildFiles(h2, es, i + 1, Append(items, f))

\* peel_sit / peel_cpt (sit.c:1063-1093 with build_file_list 970-1043;
\* bin.c:1134-1255).  `mem`: make_err can allocate.  `c0`: calloc(0, ..)
\* returns NULL (implementation-defined, C99 7.20.3).
peel_archive(h, b, mem, c0) ==
    LET n     == CountListed(Entries(b), 1)
        m     == make_err(h, mem)
        Fail  == [list |-> ZeroList, err |-> m.err, heap |-> m.heap,
                  failed |-> TRUE,
                  msg |-> "decode failed"]
    IN
    IF ~b.ok THEN Fail
    ELSE IF Len(Entries(b)) = 0
    THEN [list |-> ZeroList, err |-> NULL, heap |-> h, failed |-> FALSE,
          msg |-> ""]
    ELSE IF n = 0 /\ c0 THEN Fail
    ELSE LET files == NewId(h)
             r     == BuildFiles(Alloc(h), Entries(b), 1, <<>>)
         IN  IF r.ok
             THEN [list |-> [files |-> files, count |-> n, items |-> r.items],
                   err |-> NULL, heap |-> r.heap, failed |-> FALSE, msg |-> ""]
             ELSE LET m2 == make_err(Free(r.heap, files), mem)
                  IN  [list |-> ZeroList, err |-> m2.err, heap |-> m2.heap,
                       failed |-> TRUE,
                  msg |-> "decode failed"]

\* wrap_single_file (peeler.c:52-73) with peel_buf_copy (peeler.c:368-383):
\* a one-file list whose data fork is `owned` when non-NULL, else a copy of
\* the bytes (no allocation for an empty buffer)
wrap_single_file(h, b, owned) ==
    LET files == NewId(h)
        h1    == Alloc(h)
        df    == IF owned # NULL
                 THEN [data |-> owned, size |-> b.len, owned |-> TRUE,
                       bytes |-> <<b>>]
                 ELSE IF b.len = 0 THEN ZeroBuf
                 ELSE OwnedBuf(NewId(h1), b)
        h2    == IF owned = NULL /\ b.len # 0 THEN Alloc(h1) ELSE h1
    IN  [list |-> [files |-> files, count |-> 1,
                   items |-> <<[name |-> "", data_fork |-> df,
                                resource_fork |-> ZeroBuf]>>],
         heap |-> h2]


\* =========================================================================
\* Activation frames
\* =========================================================================

PdFrame(b, depth) ==
    [fn |-> "peel_depth", pc |-> "entry", depth |-> depth, cur |-> <<b>>,
     owned |-> NULL, wrap_depth |-> 0, list |-> ZeroList, i |-> 0,
     result |-> <<>>, result_cap |-> 0, result_id |-> NULL]

RpfFrame(list, depth) ==
    [fn |-> "recursive_peel_files", pc |-> "entry", depth |-> depth,
     cur |-> <<>>, owned |-> NULL, wrap_depth |-> 0, list |-> list, i |-> 0,
     result |-> <<>>, result_cap |-> 0, result_id |-> NULL]

Top == stack[Len(stack)]

Running(fn, pc) ==
    /\ phase = "running"
    /\ stack # <<>>
    /\ Top.fn = fn
    /\ Top.pc = pc

SetTop(fr) == stack' = [stack EXCEPT ![Len(stack)] = fr]

\* the innermost activation returns `val` to its caller
Return(val) ==
    /\ stack' = SubSeq(stack, 1, Len(stack) - 1)
    /\ ret' = val
    /\ phase' = IF Len(stack) = 1 THEN "returned" ELSE phase

RetVal(list, err) == [list |-> list, err |-> err]

NoRet == RetVal(ZeroList, NULL)

HistInit ==
    [wraps   |-> 0,      \* most wrapper layers stripped by one activation
     depth   |-> 0,      \* deepest peel_depth activation
     decFail |-> FALSE,  \* a decoder called by the outermost main loop failed
     decErr  |-> NULL,   \* ... and this is the error it returned
     calls   |-> <<>>,   \* outcome of the last per-format entry point call
     kept    |-> 0,      \* files kept because their sub-peel failed
     noArch  |-> 0,      \* files kept although their fork detects as archive
     spliced |-> 0,      \* largest sub-list spliced in place of a file
     lost    |-> {},     \* allocations a failed decode left behind
     given   |-> <<>>,   \* how the input was made, when Init records it
     sit     |-> <<>>,   \* what peel_sit did, when it is called on its own
     sit13   |-> <<>>,   \* what peel_sit13 did, when it is called on its own
     cpt     |-> <<>>,   \* what the streams of cp_decompress_fork held at
                         \* its return
     lzw     |-> <<>>,   \* what lzw_decode did, when it is called on its own
     ars     |-> <<>>,   \* how peel_sit15 ended, when its decoder is followed
     sit5    |-> <<>>,   \* how parse_sit5 ended, when its loop is followed
     m13     |-> <<>>,   \* how m13_setup ended, when it is called on its own
     cpthdr  |-> <<>>,   \* what cpt_detect and the header checks of peel_cpt
                         \* said of the same bytes
     classic |-> <<>>]   \* the files parse_classic listed, when its loop is
                         \* followed, each with the folders open around it

Max(a, b) == IF a > b THEN a ELSE b

\* what a failed entry point allocated and neither released nor returned
\* (h: the heap before the call)
LeftBehind(h, r) ==
    IF r.failed
    THEN {id \in (Len(h) + 1)..Len(r.heap) : r.heap[id] = 0 /\ id # r.err}
    ELSE {}

\* outcome of a per-format entry point, for the history
CallRec(r, zero) ==
    <<[failed |-> r.failed, err |-> r.err, zero |-> zero, msg |-> r.msg]>>

\* =========================================================================
\* peel (peeler.c:205-207) and peel_depth (peeler.c:210-268)
\* =========================================================================

\* peeler.c:213
DepthLimitReached(depth) == depth >= MAX_PEEL_DEPTH

\* the loop condition without its iteration cap
WithinWrapLimit_Unbounded(wrap_depth) == TRUE

\* peeler.c:226, the loop condition
WithinWrapLimit(wrap_depth) == wrap_depth < MAX_PEEL_DEPTH

Peel ==
    /\ phase = "idle"
    /\ phase' = "running"
    /\ stack' = <<PdFrame(input, 0)>>
    /\ UNCHANGED <<input, heap, ret, hist>>

\* peeler.c:213-216: recursion limit reached, the data is returned as a
\* single unnamed file
PdDepthLimit ==
    /\ Running("peel_depth", "entry")
    /\ DepthLimitReached(Top.depth)
    /\ LET w == wrap_single_file(heap, Top.cur[1], NULL)
       IN  /\ heap' = w.heap
           /\ Return(RetVal(w.list, NULL))
    /\ hist' = [hist EXCEPT !.depth = Max(@, Top.depth)]
    /\ UNCHANGED input

\* peeler.c:221-223
PdEnter ==
    /\ Running("peel_depth", "entry")
    /\ ~DepthLimitReached(Top.depth)
    /\ SetTop([Top EXCEPT !.pc = "loop", !.owned = NULL, !.wrap_depth = 0])
    /\ hist' = [hist EXCEPT !.depth = Max(@, Top.depth)]
    /\ UNCHANGED <<input, heap, ret, phase>>

\* peeler.c:227-230: nothing recognised
PdNoFormat ==
    /\ Running("peel_depth", "loop")
    /\ WithinWrapLimit(Top.wrap_depth)
    /\ detect_format(Top.cur[1]) = 0
    /\ SetTop([Top EXCEPT !.pc = "wrap"])
    /\ UNCHANGED <<input, heap, ret, phase, hist>>

\* peeler.c:226: the loop ends after MAX_PEEL_DEPTH iterations
PdLoopExhausted ==
    /\ Running("peel_depth", "loop")
    /\ ~WithinWrapLimit(Top.wrap_depth)
    /\ SetTop([Top EXCEPT !.pc = "wrap"])
    /\ UNCHANGED <<input, heap, ret, phase, hist>>

\* peeler.c:235-243: what the loop does with the wrapper decoder's result r
PdAfterWrapper(r) ==
    IF r.err # NULL
    THEN /\ heap' = Free(r.heap, Top.owned)
         /\ Return(RetVal(ZeroList, r.err))
    ELSE /\ heap' = Free(r.heap, Top.owned)
         /\ SetTop([Top EXCEPT !.owned = r.buf.data,
                               !.cur = <<BufBlob(r.buf)>>,
                               !.wrap_depth = @ + 1])
         /\ UNCHANGED <<ret, phase>>

\* peeler.c:232-244: one wrapper layer
PdWrapper(mem, lost) ==
    /\ Running("peel_depth", "loop")
    /\ WithinWrapLimit(Top.wrap_depth)
    /\ FmtKind(detect_format(Top.cur[1])) = "WRAPPER"
    /\ LET r == peel_wrapper(heap, Top.cur[1], mem, lost)
       IN  /\ PdAfterWrapper(r)
           /\ hist' = [hist EXCEPT
                 !.lost    = @ \cup LeftBehind(heap, r),
                 !.wraps   = IF r.err = NULL THEN Max(@, Top.wrap_depth + 1)
                             ELSE @,
                 !.decFail = @ \/ (r.failed /\ Top.depth = 0),
                 !.decErr  = IF r.failed /\ Top.depth = 0 THEN r.err ELSE @,
                 !.calls   = CallRec(r, r.buf = ZeroBuf)]
    /\ UNCHANGED input

\* the buffers an aborted BinHex decode may leave allocated
WrapperLost(b) ==
    IF ~IsBytes(b) /\ g_formats[detect_format(b)].name = "hqx"
    THEN 0..2 ELSE {0}

\* the wrapper decoder accepts b
WrapperOk(b) ==
    IF IsBytes(b) THEN hqx_decode(<<>>, b.content[1]).abort = "" ELSE b.ok

PdWrapperOk ==
    Running("peel_depth", "loop") /\ WrapperOk(Top.cur[1]) /\ PdWrapper(TRUE, 0)

PdWrapperErr ==
    /\ Running("peel_depth", "loop")
    /\ ~WrapperOk(Top.cur[1])
    /\ FmtKind(detect_format(Top.cur[1])) = "WRAPPER"
    /\ \E lost \in WrapperLost(Top.cur[1]) : PdWrapper(TRUE, lost)

\* the decoder fails and make_err cannot allocate the error object
PdWrapperErrLost ==
    /\ Running("peel_depth", "loop")
    /\ ~WrapperOk(Top.cur[1])
    /\ FmtKind(detect_format(Top.cur[1])) = "WRAPPER"
    /\ \E lost \in WrapperLost(Top.cur[1]) : PdWrapper(FALSE, lost)

\* the archive decoder's error is not looked at
PdAfterArchive_IgnoreErr(r) ==
    /\ heap' = Free(r.heap, Top.owned)
    /\ SetTop(RpfFrame(r.list, Top.depth))
    /\ UNCHANGED <<ret, phase>>

\* peeler.c:249-254: what the loop does with the archive decoder's result r
PdAfterArchive(r) ==
    IF r.err # NULL
    THEN /\ heap' = Free(r.heap, Top.owned)
         /\ Return(RetVal(ZeroList, r.err))
    ELSE /\ heap' = Free(r.heap, Top.owned)
         /\ SetTop(RpfFrame(r.list, Top.depth))
         /\ UNCHANGED <<ret, phase>>

\* peeler.c:246-255: the terminal archive; recursive_peel_files is a tail
\* call, so its frame replaces this one
PdArchive(mem, c0) ==
    /\ Running("peel_depth", "loop")
    /\ WithinWrapLimit(Top.wrap_depth)
    /\ FmtKind(detect_format(Top.cur[1])) = "ARCHIVE"
    /\ LET r == peel_archive(heap, Top.cur[1], mem, c0)
       IN  /\ PdAfterArchive(r)
           /\ hist' = [hist EXCEPT
                 !.decFail = @ \/ (r.failed /\ Top.depth = 0),
                 !.decErr  = IF r.failed /\ Top.depth = 0 THEN r.err ELSE @,
                 !.calls   = CallRec(r, r.list = ZeroList)]
    /\ UNCHANGED input

\* no listed entry and at least one entry: calloc(0, ..) decides
ZeroCount(b) == b.ok /\ Len(Entries(b)) > 0 /\ CountListed(Entries(b), 1) = 0

ArchFails(b) == ~b.ok \/ \E k \in 1..Len(Entries(b)) :
                   \/ Entries(b)[k].bad = "data" /\ Entries(b)[k].draw > 0
                   \/ Entries(b)[k].bad = "rsrc" /\ Entries(b)[k].rraw > 0

PdArchiveOk ==
    /\ Running("peel_depth", "loop")
    /\ ~ArchFails(Top.cur[1]) /\ ~ZeroCount(Top.cur[1])
    /\ PdArchive(TRUE, FALSE)

PdArchiveErr ==
    /\ Running("peel_depth", "loop")
    /\ ArchFails(Top.cur[1])
    /\ PdArchive(TRUE, FALSE)

PdArchiveErrLost ==
    /\ Running("peel_depth", "loop")
    /\ ArchFails(Top.cur[1])
    /\ PdArchive(FALSE, FALSE)

PdArchiveCalloc0 ==
    /\ Running("peel_depth", "loop")
    /\ ZeroCount(Top.cur[1])
    /\ \E c0 \in BOOLEAN : PdArchive(TRUE, c0)

\* peeler.c:258-267: no archive found, wrap what is left as one file
PdWrapSingle ==
    /\ Running("peel_depth", "wrap")
    /\ LET w == wrap_single_file(heap, Top.cur[1], Top.owned)
       IN  /\ heap' = w.heap
           /\ Return(RetVal(w.list, NULL))
    /\ UNCHANGED <<input, hist>>


\* =========================================================================
\* recursive_peel_files (peeler.c:96-201)
\* =========================================================================

\* recursing through whatever detect_format finds
OnlyWrappers_Any(k) == k

\* peeler.c:122-124: only recurse through wrappers
OnlyWrappers(k) == IF k # 0 /\ FmtKind(k) # "WRAPPER" THEN 0 ELSE k

\* peeler.c:119-125: the handler to recurse through for file f, 0 for NULL
RpfFmt(f) ==
    IF f.data_fork.data # NULL /\ f.data_fork.size > 0
    THEN OnlyWrappers(detect_format(BufBlob(f.data_fork)))
    ELSE 0

\* the file the loop is looking at (list.files[i], 0-based i)
CurFile(fr) == fr.list.items[fr.i + 1]

\* peeler.c:129-137, 150-158: capacity after growing for one more file
GrowOne(fr) ==
    IF Len(fr.result) >= fr.result_cap THEN fr.result_cap * 2
    ELSE fr.result_cap

\* peeler.c:165-175: capacity after growing for a sub-list of n files
GrowSub(fr, n) ==
    IF Len(fr.result) + n > fr.result_cap THEN (Len(fr.result) + n) * 2
    ELSE fr.result_cap

\* peeler.c:138-141, 159-161: move *f to the end of result, clear the source
KeepFile(fr) ==
    [fr EXCEPT !.result     = Append(@, CurFile(fr)),
               !.result_cap = GrowOne(fr),
               !.list.items = [@ EXCEPT ![fr.i + 1] = ZeroFile],
               !.i          = @ + 1,
               !.pc         = "loop"]

\* the sub-list's files put in front of the result
SpliceFiles_Front(result, sub) == sub \o result

\* peeler.c:176-178: the sub-list's files are moved to the end of result
SpliceFiles(result, sub) == result \o sub

\* peeler.c:164-185: replace *f by the sub-results
SpliceFile(fr, sub) ==
    [fr EXCEPT !.result     = SpliceFiles(@, sub.items),
               !.result_cap = GrowSub(fr, sub.count),
               !.list.items = [@ EXCEPT ![fr.i + 1] =
                                 [@ EXCEPT !.data_fork = ZeroBuf,
                                           !.resource_fork = ZeroBuf]],
               !.i          = @ + 1,
               !.pc         = "loop"]

\* the original file's forks are not released
SpliceHeap_Leak(h, f, sub) == Free(h, sub.files)

\* peeler.c:181-185: the heap after a splice
SpliceHeap(h, f, sub) ==
    peel_free(peel_free(Free(h, sub.files), f.data_fork), f.resource_fork)

\* peeler.c:97-99
RpfEmpty ==
    /\ Running("recursive_peel_files", "entry")
    /\ Top.list.count = 0
    /\ Return(RetVal(Top.list, NULL))
    /\ UNCHANGED <<input, heap, hist>>

\* peeler.c:103-110
RpfAlloc ==
    /\ Running("recursive_peel_files", "entry")
    /\ Top.list.count # 0
    /\ SetTop([Top EXCEPT !.pc = "loop", !.i = 0, !.result = <<>>,
                          !.result_cap = Top.list.count,
                          !.result_id = NewId(heap)])
    /\ heap' = Alloc(heap)
    /\ UNCHANGED <<input, ret, phase, hist>>

\* peeler.c:126-142: not a wrapper, keep the file as it is
RpfKeep ==
    /\ Running("recursive_peel_files", "loop")
    /\ Top.i < Top.list.count
    /\ RpfFmt(CurFile(Top)) = 0
    /\ SetTop(KeepFile(Top))
    /\ hist' = [hist EXCEPT !.noArch = @ +
          (IF FmtKind(detect_format(BufBlob(CurFile(Top).data_fork)))
                = "ARCHIVE" THEN 1 ELSE 0)]
    /\ UNCHANGED <<input, heap, ret, phase>>

\* peeler.c:144-146: peel the data fork one level deeper
RpfRecurse ==
    /\ Running("recursive_peel_files", "loop")
    /\ Top.i < Top.list.count
    /\ RpfFmt(CurFile(Top)) # 0
    /\ stack' = Append([stack EXCEPT ![Len(stack)].pc = "await"],
                       PdFrame(BufBlob(CurFile(Top).data_fork), Top.depth + 1))
    /\ UNCHANGED <<input, heap, ret, phase, hist>>

\* the sub-peel's error aborts the enclosing peel
RpfSubFail_Propagate ==
    /\ Running("recursive_peel_files", "await")
    /\ ret.err # NULL
    /\ heap' = peel_file_list_free(Free(heap, Top.result_id), Top.list)
    /\ Return(RetVal(ZeroList, ret.err))
    /\ UNCHANGED <<input, hist>>

\* peeler.c:147-162: the recursive peel failed, keep the original file
RpfSubFail ==
    /\ Running("recursive_peel_files", "await")
    /\ ret.err # NULL
    /\ heap' = peel_err_free(heap, ret.err)
    /\ SetTop(KeepFile(Top))
    /\ ret' = NoRet
    /\ hist' = [hist EXCEPT !.kept = @ + 1]
    /\ UNCHANGED <<input, phase>>

\* peeler.c:164-185: the recursive peel returned a list
RpfSplice ==
    /\ Running("recursive_peel_files", "await")
    /\ ret.err = NULL
    /\ heap' = SpliceHeap(heap, CurFile(Top), ret.list)
    /\ SetTop(SpliceFile(Top, ret.list))
    /\ ret' = NoRet
    /\ hist' = [hist EXCEPT !.spliced = Max(@, ret.list.count)]
    /\ UNCHANGED <<input, phase>>

\* peeler.c:188-190
RpfDone ==
    /\ Running("recursive_peel_files", "loop")
    /\ Top.i >= Top.list.count
    /\ heap' = Free(heap, Top.list.files)
    /\ Return(RetVal([files |-> Top.result_id, count |-> Len(Top.result),
                      items |-> Top.result], NULL))
    /\ UNCHANGED <<input, hist>>

\* =========================================================================
\* The caller releases what peel returned
\* =========================================================================

\* peel_file_list_free(&list) (peeler.c:304-314)
PeelFileListFree ==
    /\ phase = "returned"
    /\ heap' = peel_file_list_free(heap, ret.list)
    /\ ret' = [ret EXCEPT !.list = ZeroList]
    /\ phase' = "freed"
    /\ UNCHANGED <<input, stack, hist>>

\* peel_err_free(err) (err.c:58-60)
PeelErrFree ==
    /\ phase = "freed"
    /\ ret.err # NULL
    /\ heap' = peel_err_free(heap, ret.err)
    /\ ret' = [ret EXCEPT !.err = NULL]
    /\ UNCHANGED <<input, stack, phase, hist>>

\* =========================================================================
\* Inputs
\* =========================================================================

\* a buffer that holds both a BinHex preamble and a StuffIt signature
HqxAndSit == Blob({"hqx", "sit"}, 3, TRUE, 1, <<Raw(1)>>, <<>>, 0)

TwoFileCpt == Arch("cpt", <<DataEntry("a", Raw(1)), DataEntry("b", Raw(3))>>)

EntryKinds ==
    { DataEntry("raw", Raw(2)),
      DataEntry("hqx", Wrap("hqx", Raw(2))),
      DataEntry("badbin", BadWrap("bin")),
      DataEntry("sit", Arch("sit", <<DataEntry("x", Raw(1))>>)),
      DataEntry("bincpt", Wrap("bin", TwoFileCpt)),
      DataEntry("hqxsit", HqxAndSit),
      DataEntry("hqx0", Wrap("hqx", Raw(0))),
      DataEntry("hqxbadsit", Wrap("hqx", BadArch("sit"))),
      Entry("empty", 0, Raw(0), 0, 0, "none"),
      Entry("rsrc", 0, Raw(0), 2, 2, "none"),
      Entry("short", 2, Raw(0), 0, 0, "none"),
      Entry("both", 3, Wrap("hqx", Raw(2)), 1, 1, "none"),
      Entry("baddata", 2, Raw(2), 0, 0, "data"),
      Entry("badrsrc", 1, Raw(1), 1, 1, "rsrc") }

EntrySeqs ==
    {<<>>} \cup {<<e>> : e \in EntryKinds}
           \cup {<<e1, e2>> : e1 \in EntryKinds, e2 \in EntryKinds}

Inputs ==
    {Raw(0), Raw(3), BadArch("cpt"), HqxAndSit}
    \cup {Chain(n, "hqx", Raw(1)) : n \in 1..MaxChain}
    \cup {Chain(n, "bin", Raw(0)) : n \in 1..2}
    \cup {Chain(n, "bin", BadWrap("hqx")) : n \in 0..2}
    \cup {Chain(n, "hqx", Arch(f, es)) :
             n \in 0..1, f \in {"sit", "cpt"}, es \in EntrySeqs}
    \cup {NestW(k) : k \in 1..MaxNest}
    \cup {Arch("sit", <<DataEntry("chain", Chain(MaxChain, "hqx", Raw(1))),
                        DataEntry("nest", NestW(MaxNest))>>)}

\* =========================================================================
\* Specification of the driver
\* =========================================================================

Init ==
    /\ input \in Inputs
    /\ stack = <<>>
    /\ heap = <<>>
    /\ ret = NoRet
    /\ phase = "idle"
    /\ hist = HistInit

Next ==
    \/ Peel
    \/ PdDepthLimit
    \/ PdEnter
    \/ PdNoFormat
    \/ PdLoopExhausted
    \/ PdWrapperOk
    \/ PdWrapperErr
    \/ PdWrapperErrLost
    \/ PdArchiveOk
    \/ PdArchiveErr
    \/ PdArchiveErrLost
    \/ PdArchiveCalloc0
    \/ PdWrapSingle
    \/ RpfEmpty
    \/ RpfAlloc
    \/ RpfKeep
    \/ RpfRecurse
    \/ RpfSubFail
    \/ RpfSplice
    \/ RpfDone
    \/ PeelFileListFree
    \/ PeelErrFree

Spec == Init /\ [][Next]_vars


\* the driver under the scheduling of a single-threaded synchronous call
\* (spec section 5): a step that can be taken is taken
LiveSpec == Spec /\ WF_vars(Next)

\* =========================================================================
\* Known-good BinHex 4.0 files (docs/hqx.md sections 3-7)
\* =========================================================================

\* docs/hqx.md 6.2: header (6.3), data fork, resource fork, each followed
\* by its CRC (7.2)
HqxStream(name, data, rsrc) ==
    LET WithCrc(s) == s \o wr16be(crc16_ccitt(s))
        header == <<Len(name)>> \o name \o <<0>> \o <<84, 69, 88, 84>>
                    \o <<116, 116, 120, 116>> \o wr16be(0)
                    \o wr32be(Len(data)) \o wr32be(Len(rsrc))
    IN  WithCrc(header) \o WithCrc(data) \o WithCrc(rsrc)

RECURSIVE RleEscape(_, _)
\* docs/hqx.md 5.3: a literal 0x90 is written as 0x90 0x00
RleEscape(s, i) ==
    IF i > Len(s) THEN <<>>
    ELSE (IF s[i] = RLE_MARKER THEN <<RLE_MARKER, 0>> ELSE <<s[i]>>)
            \o RleEscape(s, i + 1)

RECURSIVE SixBit(_, _, _, _)
\* docs/hqx.md 4.2: 8-to-6 conversion, most significant bit first, the last
\* character padded with zero bits
SixBit(s, i, acc, nb) ==
    IF nb >= 6
    THEN <<hqx_alphabet[((acc \div (2 ^ (nb - 6))) % 64) + 1]>>
            \o SixBit(s, i, acc % (2 ^ (nb - 6)), nb - 6)
    ELSE IF i > Len(s)
    THEN IF nb = 0 THEN <<>>
         ELSE <<hqx_alphabet[((acc * (2 ^ (6 - nb))) % 64) + 1]>>
    ELSE SixBit(s, i + 1, acc * 256 + s[i], nb + 8)

\* docs/hqx.md 3: preamble line, colon, payload, colon
HqxText(stream) ==
    HQX_PREAMBLE \o <<32, 52, 46, 48, 41, 10, 58>>
        \o SixBit(RleEscape(stream, 1), 1, 0, 0) \o <<58, 10>>

\* longest data fork of the known-good files
MaxData == 2

\* the known-good file "a" with d bytes of data ('h', a literal 0x90 that
\* the encoding escapes, 'j', ...); the resource fork is one byte when d is
\* even and empty when d is odd
GoodFiles ==
    [d \in 0..MaxData |->
        HqxText(HqxStream(<<97>>,
                          [i \in 1..d |->
                              IF i = 2 THEN RLE_MARKER ELSE 103 + i],
                          [i \in 1..((d + 1) % 2) |-> 82]))]

\* the bytes a corruption puts in place of the byte c: colon, space, line
\* feed, '!', 'g' (not in the alphabet), NUL and, when c is in the alphabet,
\* the characters whose 6-bit value differs from c's in one bit or in all
CorruptValues(c) ==
    ({58, 32, 10, 33, 103, 0}
        \cup (IF rev_table[c] > 63 THEN {}
              ELSE {hqx_alphabet[Xor(rev_table[c], mask) + 1] :
                      mask \in {1, 2, 4, 8, 16, 32, 63}}))
    \ {c}

\* =========================================================================
\* Specification of peel on BinHex text, byte by byte
\* =========================================================================

\* a known-good file: untouched (pos = 0, len its length), with one byte
\* replaced by a different one (pos, val), or cut short to its first len
\* bytes
HqxInit ==
    /\ \E d \in 0..MaxData :
         LET good == GoodFiles[d]
             Given(p, v, n) == [d |-> d, pos |-> p, val |-> v, len |-> n]
         IN  \/ /\ input = Bytes(good)
                /\ hist = [HistInit EXCEPT !.given = Given(0, 0, Len(good))]
             \/ \E p \in 1..Len(good) :
                  \E v \in CorruptValues(good[p]) :
                    /\ input = Bytes([good EXCEPT ![p] = v])
                    /\ hist = [HistInit EXCEPT
                                 !.given = Given(p, v, Len(good))]
             \/ \E n \in 0..(Len(good) - 1) :
                    /\ input = Bytes(SubSeq(good, 1, n))
                    /\ hist = [HistInit EXCEPT !.given = Given(0, 0, n)]
    /\ stack = <<>>
    /\ heap = <<>>
    /\ ret = NoRet
    /\ phase = "idle"

\* the steps of the driver that such an input can take
HqxNext ==
    \/ Peel
    \/ PdEnter
    \/ PdNoFormat
    \/ PdWrapperOk
    \/ PdWrapperErr
    \/ PdWrapperErrLost
    \/ PdWrapSingle
    \/ PeelFileListFree
    \/ PeelErrFree

HqxSpec == HqxInit /\ [][HqxNext]_vars

\* =========================================================================
\* Decoder entry points, step by step: what a call allocates and releases
\* =========================================================================

\* largest declared output length of a peel_sit15 call
MaxOut == 2
\* most directory entries of a Compact Pro archive
MaxEntries == 2

\* ---- calls ---------------------------------------------------------------

\* peel_sit15(src, len, uncomp_len, err): the compressed stream is described
\* by what the decoder finds in it.  hdr: what parse_header finds ("ok",
\* "sig_A", "sig_s", or "bits" when the bitstream is exhausted); bad_at =
\* k > 0: produce_byte aborts while producing byte k.
Sit15Call(n, hdr, bad_at) ==
    [fn |-> "peel_sit15", uncomp_len |-> n, hdr |-> hdr, bad_at |-> bad_at]

\* a Compact Pro directory entry: uncompressed fork lengths, the encryption
\* flag, and whether a fork extends past the archive
CptEntry(rsrc_uncomp, data_uncomp, encrypt, past) ==
    [rsrc_uncomp |-> rsrc_uncomp, data_uncomp |-> data_uncomp,
     encrypt |-> encrypt, past |-> past]

\* peel_cpt(src, len, err): hdr is what the header checks and
\* cp_parse_directory find ("ok", "short", "magic", "dir_off", "dir")
CptCall(hdr, entries) == [fn |-> "peel_cpt", hdr |-> hdr, entries |-> entries]

\* peel_hqx_file(src, len, err) on the bytes src
HqxFileCall(src) == [fn |-> "peel_hqx_file", src |-> src]

\* value and error slot of a returned call
DecRet(val, err) == [val |-> val, err |-> err]

\* ---- peel_sit15 (sit15.c:616-666) ----------------------------------------

Sit15Frame ==
    [fn |-> "peel_sit15", pc |-> "entry", out |-> NULL, s |-> NULL,
     blk_buf |-> NULL, lf_map |-> NULL, i |-> 0]

\* the call of a decoder entry point
DecCall ==
    /\ phase = "idle"
    /\ phase' = "running"
    /\ stack' = <<IF input.fn = "peel_sit15" THEN Sit15Frame
                  ELSE [fn |-> input.fn, pc |-> "entry"]>>
    /\ UNCHANGED <<input, heap, ret, hist>>

\* sit15.c:620-622: zero-length output
Sit15Zero ==
    /\ Running("peel_sit15", "entry")
    /\ input.uncomp_len = 0
    /\ Return(DecRet(ZeroBuf, NULL))
    /\ UNCHANGED <<input, heap, hist>>

\* sit15.c:625: the output buffer
Sit15AllocOut ==
    /\ Running("peel_sit15", "entry")
    /\ input.uncomp_len # 0
    /\ heap' = Alloc(heap)
    /\ SetTop([Top EXCEPT !.pc = "state", !.out = NewId(heap)])
    /\ UNCHANGED <<input, ret, phase, hist>>

\* sit15.c:626-629: malloc fails
Sit15AllocOutFail ==
    /\ Running("peel_sit15", "entry")
    /\ input.uncomp_len # 0
    /\ \E mem \in BOOLEAN :
         LET m == make_err(heap, mem)
         IN  /\ heap' = m.heap
             /\ Return(DecRet(ZeroBuf, m.err))
    /\ UNCHANGED <<input, hist>>

\* sit15.c:632, 640, 648-651: setjmp returns 0, the decoder state is
\* allocated
Sit15AllocState ==
    /\ Running("peel_sit15", "state")
    /\ heap' = Alloc(heap)
    /\ SetTop([Top EXCEPT !.pc = "header", !.s = NewId(heap)])
    /\ UNCHANGED <<input, ret, phase, hist>>

\* sit15.c:641-645: calloc fails
Sit15AllocStateFail ==
    /\ Running("peel_sit15", "state")
    /\ \E mem \in BOOLEAN :
         LET m == make_err(Free(heap, Top.out), mem)
         IN  /\ heap' = m.heap
             /\ Return(DecRet(ZeroBuf, m.err))
    /\ UNCHANGED <<input, hist>>

\* parse_header (sit15.c:560-580): arsenic_abort before the block buffers
\* are allocated
Sit15HeaderAbort ==
    /\ Running("peel_sit15", "header")
    /\ input.hdr # "ok"
    /\ SetTop([Top EXCEPT !.pc = "abort"])
    /\ UNCHANGED <<input, heap, ret, phase, hist>>

\* parse_header (sit15.c:585-591): both block buffers are requested; the
\* call aborts when either malloc fails
Sit15ParseHeader ==
    /\ Running("peel_sit15", "header")
    /\ input.hdr = "ok"
    /\ \E m1 \in BOOLEAN, m2 \in BOOLEAN :
         LET h1  == IF m1 THEN Alloc(heap) ELSE heap
             blk == IF m1 THEN NewId(heap) ELSE NULL
             h2  == IF m2 THEN Alloc(h1) ELSE h1
             lf  == IF m2 THEN NewId(h1) ELSE NULL
         IN  /\ heap' = h2
             /\ SetTop([Top EXCEPT !.blk_buf = blk, !.lf_map = lf,
                          !.pc = IF m1 /\ m2 THEN "body" ELSE "abort"])
    /\ UNCHANGED <<input, ret, phase, hist>>

\* sit15.c:656-657: out[i] = produce_byte(s)
Sit15ProduceByte ==
    /\ Running("peel_sit15", "body")
    /\ Top.i < input.uncomp_len
    /\ Top.i + 1 # input.bad_at
    /\ SetTop([Top EXCEPT !.i = @ + 1])
    /\ UNCHANGED <<input, heap, ret, phase, hist>>

\* produce_byte reaches arsenic_abort (sit15.c:256-526)
Sit15ProduceAbort ==
    /\ Running("peel_sit15", "body")
    /\ Top.i < input.uncomp_len
    /\ Top.i + 1 = input.bad_at
    /\ SetTop([Top EXCEPT !.pc = "abort"])
    /\ UNCHANGED <<input, heap, ret, phase, hist>>

\* sit15.c:632-637: setjmp returns non-zero; the handler releases `out`
\* and nothing else
Sit15Abort ==
    /\ Running("peel_sit15", "abort")
    /\ \E mem \in BOOLEAN :
         LET m == make_err(Free(heap, Top.out), mem)
         IN  /\ heap' = m.heap
             /\ Return(DecRet(ZeroBuf, m.err))
    /\ UNCHANGED <<input, hist>>

\* sit15.c:660-665: free_buffers, free(s), the output is returned
Sit15Finish ==
    /\ Running("peel_sit15", "body")
    /\ Top.i = input.uncomp_len
    /\ heap' = Free(Free(Free(heap, Top.blk_buf), Top.lf_map), Top.s)
    /\ Return(DecRet(OwnedBuf(Top.out, Raw(input.uncomp_len)), NULL))
    /\ UNCHANGED <<input, hist>>

\* ---- peel_cpt (bin.c:1134-1255) ------------------------------------------

\* bin.c:1138-1159: a header check or cp_parse_directory fails; whatever
\* cp_parse_directory allocated is released
CptBadHeader ==
    /\ Running("peel_cpt", "entry")
    /\ input.hdr # "ok"
    /\ \E mem \in BOOLEAN :
         LET h1 == IF input.hdr = "dir" THEN Free(Alloc(heap), NewId(heap))
                   ELSE heap
             m  == make_err(h1, mem)
         IN  /\ heap' = m.heap
             /\ Return(DecRet(ZeroList, m.err))
    /\ UNCHANGED <<input, hist>>

\* bin.c:1170-1176: entries with a non-empty fork
CptFileCount(entries) ==
    Cardinality({i \in 1..Len(entries) :
                   entries[i].data_uncomp > 0 \/ entries[i].rsrc_uncomp > 0})

\* bin.c:1154-1156: the directory is parsed into ar.entries
CptParse ==
    /\ Running("peel_cpt", "entry")
    /\ input.hdr = "ok"
    /\ heap' = Alloc(heap)
    /\ SetTop([fn |-> "peel_cpt", pc |-> "count", ar_entries |-> NewId(heap),
               files |-> NULL, file_count |-> 0, items |-> <<>>, i |-> 1,
               fi |-> 0])
    /\ UNCHANGED <<input, ret, phase, hist>>

\* bin.c:1162-1165: no entries
CptEmpty ==
    /\ Running("peel_cpt", "count")
    /\ Len(input.entries) = 0
    /\ heap' = Free(heap, Top.ar_entries)
    /\ Return(DecRet(ZeroList, NULL))
    /\ UNCHANGED <<input, hist>>

\* bin.c:1168-1178, 1186-1187: the file array is allocated, setjmp
\* returns 0
CptAllocFiles ==
    /\ Running("peel_cpt", "count")
    /\ Len(input.entries) # 0
    /\ LET n == CptFileCount(input.entries)
       IN  /\ heap' = Alloc(heap)
           /\ SetTop([Top EXCEPT !.pc = "loop", !.files = NewId(heap),
                        !.file_count = n,
                        !.items = [k \in 1..n |-> ZeroFile]])
    /\ UNCHANGED <<input, ret, phase, hist>>

\* bin.c:1179-1183: calloc returns NULL (it may for a count of 0 also when
\* memory is available)
CptAllocFilesFail ==
    /\ Running("peel_cpt", "count")
    /\ Len(input.entries) # 0
    /\ \E mem \in BOOLEAN :
         LET m == make_err(Free(heap, Top.ar_entries), mem)
         IN  /\ heap' = m.heap
             /\ Return(DecRet(ZeroList, m.err))
    /\ UNCHANGED <<input, hist>>

\* the loop condition of bin.c:1201
CptInLoop == Top.i <= Len(input.entries) /\ Top.fi < Top.file_count

\* bin.c:1206: an entry without a non-empty fork
CptSkipEntry ==
    /\ Running("peel_cpt", "loop")
    /\ CptInLoop
    /\ LET e == input.entries[Top.i]
       IN  e.data_uncomp = 0 /\ e.rsrc_uncomp = 0
    /\ SetTop([Top EXCEPT !.i = @ + 1])
    /\ UNCHANGED <<input, heap, ret, phase, hist>>

\* bin.c:1209-1232: decode_abort for an encrypted entry or a fork that
\* extends past the archive
CptEntryAbort ==
    /\ Running("peel_cpt", "loop")
    /\ CptInLoop
    /\ LET e == input.entries[Top.i]
       IN  /\ e.data_uncomp > 0 \/ e.rsrc_uncomp > 0
           /\ e.encrypt \/ e.past
    /\ SetTop([Top EXCEPT !.pc = "abort"])
    /\ UNCHANGED <<input, heap, ret, phase, hist>>

\* cp_decompress_fork (bin.c:1080-1107): [buf, heap, abort]; grow_init
\* aborts when the output cannot be allocated (`mem` false)
cp_decompress_fork(h, uncomp_len, mem) ==
    IF ~mem
    THEN [buf |-> ZeroBuf, heap |-> h, abort |-> "out of memory"]
    ELSE LET out == grow_init(h)
         IN  [buf |-> grow_finish(out, [k \in 1..uncomp_len |-> 0]),
              heap |-> out.heap, abort |-> ""]

\* bin.c:1213-1250: both forks of one entry, the resource fork first; a
\* fork is stored in files[fi] when cp_decompress_fork returns
CptEntryForks ==
    /\ Running("peel_cpt", "loop")
    /\ CptInLoop
    /\ LET e == input.entries[Top.i]
       IN  /\ e.data_uncomp > 0 \/ e.rsrc_uncomp > 0
           /\ ~(e.encrypt \/ e.past)
           /\ \E m1 \in BOOLEAN, m2 \in BOOLEAN :
                LET fi == Top.fi + 1
                    r  == IF e.rsrc_uncomp > 0
                          THEN cp_decompress_fork(heap, e.rsrc_uncomp, m1)
                          ELSE [buf |-> ZeroBuf, heap |-> heap, abort |-> ""]
                    d  == IF r.abort = "" /\ e.data_uncomp > 0
                          THEN cp_decompress_fork(r.heap, e.data_uncomp, m2)
                          ELSE [buf |-> ZeroBuf, heap |-> r.heap,
                                abort |-> r.abort]
                IN  /\ heap' = d.heap
                    /\ SetTop([Top EXCEPT
                         !.items[fi].resource_fork = r.buf,
                         !.items[fi].data_fork = d.buf,
                         !.pc = IF d.abort = "" THEN "loop" ELSE "abort",
                         !.i  = IF d.abort = "" THEN @ + 1 ELSE @,
                         !.fi = IF d.abort = "" THEN fi ELSE @])
    /\ UNCHANGED <<input, ret, phase, hist>>

\* bin.c:1188-1197: the handler of the longjmp releases every fork, the
\* file array and the entry list
CptAbort ==
    /\ Running("peel_cpt", "abort")
    /\ \E mem \in BOOLEAN :
         LET h1 == Free(Free(FreeFiles(heap, Top.items, 1), Top.files),
                        Top.ar_entries)
             m  == make_err(h1, mem)
         IN  /\ heap' = m.heap
             /\ Return(DecRet(ZeroList, m.err))
    /\ UNCHANGED <<input, hist>>

\* bin.c:1253-1254
CptDone ==
    /\ Running("peel_cpt", "loop")
    /\ ~CptInLoop
    /\ heap' = Free(heap, Top.ar_entries)
    /\ Return(DecRet([files |-> Top.files, count |-> Top.file_count,
                      items |-> Top.items], NULL))
    /\ UNCHANGED <<input, hist>>

\* ---- peel_hqx_file (hqx.c:459-469) ---------------------------------------

HqxFile ==
    /\ Running("peel_hqx_file", "entry")
    /\ \E mem \in BOOLEAN :
         LET r == peel_hqx_file(heap, input.src, mem)
         IN  /\ heap' = r.heap
             /\ Return(DecRet(r.file, r.err))
             /\ hist' = [hist EXCEPT !.calls = CallRec(r, r.file = ZeroFile)]
    /\ UNCHANGED input

\* ---- inputs and specification --------------------------------------------

\* the calls explored: peel_sit15 for every declared length and place of
\* failure, peel_cpt for every directory of up to MaxEntries entries, and
\* peel_hqx_file for the known-good BinHex files, whole or cut short by a
\* colon in place of one byte
DecodeCalls ==
    LET CptEntryKinds ==
            { CptEntry(0, 0, FALSE, FALSE), CptEntry(1, 0, FALSE, FALSE),
              CptEntry(0, 1, FALSE, FALSE), CptEntry(1, 1, FALSE, FALSE),
              CptEntry(1, 1, TRUE, FALSE), CptEntry(0, 1, FALSE, TRUE) }
    IN  {Sit15Call(n, "ok", b) : n \in 0..MaxOut, b \in 0..MaxOut}
        \cup {Sit15Call(1, h, 0) : h \in {"sig_A", "sig_s", "bits"}}
        \cup {CptCall("ok", es) :
                es \in UNION {[1..n -> CptEntryKinds] : n \in 0..MaxEntries}}
        \cup {CptCall(h, <<>>) : h \in {"short", "magic", "dir_off", "dir"}}
        \cup {HqxFileCall(GoodFiles[d]) : d \in 0..MaxData}
        \cup {HqxFileCall([GoodFiles[d] EXCEPT ![p] = 58]) :
                d \in 0..MaxData, p \in 1..Len(GoodFiles[0])}

DecodeInit ==
    /\ input \in DecodeCalls
    /\ stack = <<>>
    /\ heap = <<>>
    /\ ret = DecRet(ZeroBuf, NULL)
    /\ phase = "idle"
    /\ hist = HistInit

DecodeNext ==
    \/ DecCall
    \/ Sit15Zero
    \/ Sit15AllocOut
    \/ Sit15AllocOutFail
    \/ Sit15AllocState
    \/ Sit15AllocStateFail
    \/ Sit15HeaderAbort
    \/ Sit15ParseHeader
    \/ Sit15ProduceByte
    \/ Sit15ProduceAbort
    \/ Sit15Abort
    \/ Sit15Finish
    \/ CptBadHeader
    \/ CptParse
    \/ CptEmpty
    \/ CptAllocFiles
    \/ CptAllocFilesFail
    \/ CptSkipEntry
    \/ CptEntryAbort
    \/ CptEntryForks
    \/ CptAbort
    \/ CptDone
    \/ HqxFile

DecodeSpec == DecodeInit /\ [][DecodeNext]_vars

\* =========================================================================
\* Byte level: StuffIt CRC-16 (sit.c)
\* =========================================================================

\* sit_crc_table (sit.c:146-179): reflected polynomial 0xA001
sit_crc_table ==
    <<
      0, 49345, 49537, 320, 49921, 960, 640, 49729,
      50689, 1728, 1920, 51009, 1280, 50625, 50305, 1088,
      52225, 3264, 3456, 52545, 3840, 53185, 52865, 3648,
      2560, 51905, 52097, 2880, 51457, 2496, 2176, 51265,
      55297, 6336, 6528, 55617, 6912, 56257, 55937, 6720,
      7680, 57025, 57217, 8000, 56577, 7616, 7296, 56385,
      5120, 54465, 54657, 5440, 55041, 6080, 5760, 54849,
      53761, 4800, 4992, 54081, 4352, 53697, 53377, 4160,
      61441, 12480, 12672, 61761, 13056, 62401, 62081, 12864,
      13824, 63169, 63361, 14144, 62721, 13760, 13440, 62529,
      15360, 64705, 64897, 15680, 65281, 16320, 16000, 65089,
      64001, 15040, 15232, 64321, 14592, 63937, 63617, 14400,
      10240, 59585, 59777, 10560, 60161, 11200, 10880, 59969,
      60929, 11968, 12160, 61249, 11520, 60865, 60545, 11328,
      58369, 9408, 9600, 58689, 9984, 59329, 59009, 9792,
      8704, 58049, 58241, 9024, 57601, 8640, 8320, 57409,
      40961, 24768, 24960, 41281, 25344, 41921, 41601, 25152,
      26112, 42689, 42881, 26432, 42241, 26048, 25728, 42049,
      27648, 44225, 44417, 27968, 44801, 28608, 28288, 44609,
      43521, 27328, 27520, 43841, 26880, 43457, 43137, 26688,
      30720, 47297, 47489, 31040, 47873, 31680, 31360, 47681,
      48641, 32448, 32640, 48961, 32000, 48577, 48257, 31808,
      46081, 29888, 30080, 46401, 30464, 47041, 46721, 30272,
      29184, 45761, 45953, 29504, 45313, 29120, 28800, 45121,
      20480, 37057, 37249, 20800, 37633, 21440, 21120, 37441,
      38401, 22208, 22400, 38721, 21760, 38337, 38017, 21568,
      39937, 23744, 23936, 40257, 24320, 40897, 40577, 24128,
      23040, 39617, 39809, 23360, 39169, 22976, 22656, 38977,
      34817, 18624, 18816, 35137, 19200, 35777, 35457, 19008,
      19968, 36545, 36737, 20288, 36097, 19904, 19584, 35905,
      17408, 33985, 34177, 17728, 34561, 18368, 18048, 34369,
      33281, 17088, 17280, 33601, 16640, 33217, 32897, 16448
    >>

RECURSIVE sit_crc_update(_, _, _, _)
\* sit_crc_update (sit.c:182-186) over the bytes lo..hi of buf, in order:
\* the first half of them, then the rest; crc is a uint16_t
sit_crc_update(crc, buf, lo, hi) ==
    IF lo > hi THEN crc
    ELSE IF lo = hi
    THEN Xor(sit_crc_table[(Xor(crc, buf[lo]) % 256) + 1], crc \div 256)
    ELSE With(sit_crc_update(crc, buf, lo, (lo + hi) \div 2),
              LAMBDA half :
           sit_crc_update(half, buf, ((lo + hi) \div 2) + 1, hi))

\* sit_crc (sit.c:189-191): initial value 0
sit_crc(buf) == sit_crc_update(0, buf, 1, Len(buf))

\* =========================================================================
\* Byte level: StuffIt method 2, LZW (sit.c)
\* =========================================================================

\* sit.c:67-70
LZW_MAX_BITS == 14
LZW_TABLE_CAP == 16384
LZW_CLEAR_CODE == 256
LZW_FIRST_NEW == 257

\* arr[idx] of an array of the calloc'ed lzw_state_t (sit.c:271), held as
\* the sequence of its first entries: the entries beyond are still zero
Slot(arr, idx) == IF idx < Len(arr) THEN arr[idx + 1] ELSE 0

\* arr[idx] = v
SetSlot(arr, idx, v) ==
    [k \in 1..(IF idx < Len(arr) THEN Len(arr) ELSE idx + 1) |->
        IF k = idx + 1 THEN v ELSE Slot(arr, k - 1)]

\* lzw_create (sit.c:270-286).  invalid: a code read so far named an entry
\* that does not exist, one greater than the next free slot or, right
\* after a reset, one that is not a byte (not part of the C state).
\* clears: for every clear code read so far, the width and block_count it
\* was read with, the bits skipped after it and the width and free slot it
\* left (not part of the C state).
lzw_create ==
    [bit_pos |-> 0, tbl_next |-> LZW_FIRST_NEW, code_bits |-> 9, prev |-> -1,
     block_count |-> 0,
     prev_code |-> [i \in 1..256 |-> 65535],
     suffix    |-> [i \in 1..256 |-> i - 1],
     head      |-> [i \in 1..256 |-> i - 1],
     chain_len |-> [i \in 1..256 |-> 1],
     stage |-> <<>>, stage_rd |-> 0, stage_len |-> 0,
     invalid |-> FALSE, clears |-> <<>>]

\* lzw_next_code (sit.c:290-305): [z, code], code -1 on input exhaustion.
\* Of the up to 4 bytes loaded into acc only bits 0..20 can reach the code
\* (shift <= 7, code_bits <= 14), so the fourth byte is left out.
lzw_next_code(src, z) ==
    LET byte_off == z.bit_pos \div 8
        avail    == Len(src) - byte_off
        Byte(k)  == IF k < avail THEN At(src, byte_off + k) ELSE 0
        acc      == Byte(0) + 256 * Byte(1) + 65536 * Byte(2)
        shift    == z.bit_pos % 8
    IN  IF byte_off >= Len(src) THEN [z |-> z, code |-> -1]
        ELSE [z    |-> [z EXCEPT !.bit_pos = @ + z.code_bits,
                                 !.block_count = @ + 1],
              code |-> (acc \div (2 ^ shift)) % (2 ^ z.code_bits)]

RECURSIVE lzw_chain(_, _, _, _)
\* the backward walk of sit.c:316-319 and 402-405: stage[--pos] =
\* suffix[cur] while cur is not the end mark and pos > 0; [stage, pos]
lzw_chain(z, stage, cur, pos) ==
    IF cur # 65535 /\ pos > 0
    THEN lzw_chain(z, [stage EXCEPT ![pos] = Slot(z.suffix, cur)],
                   Slot(z.prev_code, cur), pos - 1)
    ELSE [stage |-> stage, pos |-> pos]

\* sit.c:310-326 and 396-411: the chain of cur in a stage of len bytes,
\* whose last bytes are `tail`, shifted left when the walk stopped short
lzw_stage(z, cur, len0, tail) ==
    LET len == IF len0 > LZW_TABLE_CAP THEN LZW_TABLE_CAP ELSE len0
        init == [k \in 1..len |->
                    IF k > len - Len(tail) THEN tail[k - (len - Len(tail))]
                    ELSE IF k <= Len(z.stage) THEN z.stage[k] ELSE 0]
    IN  With(lzw_chain(z, init, cur, len - Len(tail)), LAMBDA w :
          [z EXCEPT !.stage = SubSeq(w.stage, w.pos + 1, len),
                    !.stage_rd = 0,
                    !.stage_len = len - w.pos])

\* lzw_expand (sit.c:309-327)
lzw_expand(z, code) == lzw_stage(z, code, Slot(z.chain_len, code), <<>>)

\* lzw_add_entry (sit.c:331-345)
lzw_add_entry(z, prev_val, first_byte) ==
    IF z.tbl_next >= LZW_TABLE_CAP THEN z
    ELSE LET idx == z.tbl_next
             nxt == idx + 1
         IN  [z EXCEPT
                !.prev_code = SetSlot(@, idx, prev_val),
                !.suffix    = SetSlot(@, idx, first_byte),
                !.head      = SetSlot(@, idx, Slot(z.head, prev_val)),
                !.chain_len = SetSlot(@, idx,
                                (Slot(z.chain_len, prev_val) + 1) % 65536),
                !.tbl_next  = nxt,
                !.code_bits =
                    IF nxt < LZW_TABLE_CAP
                       /\ (\E k \in 0..LZW_MAX_BITS : nxt = 2 ^ k)
                       /\ @ < LZW_MAX_BITS
                    THEN @ + 1 ELSE @]

\* the bits lzw_decode skips after a clear code (sit.c:367-369); z is the
\* state after lzw_next_code has read the clear code
lzw_clear_skip(z) ==
    IF z.block_count % 8 # 0 THEN z.code_bits * (8 - (z.block_count % 8))
    ELSE 0

\* the reset on a clear code (sit.c:366-374)
lzw_clear(z) ==
    LET reset == [z EXCEPT !.bit_pos = @ + lzw_clear_skip(z),
                           !.tbl_next = LZW_FIRST_NEW, !.code_bits = 9,
                           !.prev = -1, !.block_count = 0]
    IN  [reset EXCEPT !.clears =
           Append(@, [code_bits |-> z.code_bits,
                      block_count |-> z.block_count,
                      skipped |-> reset.bit_pos - z.bit_pos,
                      width |-> reset.code_bits, free |-> reset.tbl_next])]

RECURSIVE lzw_decode(_, _, _, _)
\* lzw_decode (sit.c:349-416), its while loop with `dst` the bytes produced
\* so far: [z, dst]
lzw_decode(src, z, dst, want) ==
    IF ~(Len(dst) < want) THEN [z |-> z, dst |-> dst]
    ELSE IF z.stage_rd < z.stage_len
    THEN LET avail == z.stage_len - z.stage_rd
             n     == IF avail > want - Len(dst) THEN want - Len(dst)
                      ELSE avail
         IN  lzw_decode(src, [z EXCEPT !.stage_rd = @ + n],
                        dst \o SubSeq(z.stage, z.stage_rd + 1, z.stage_rd + n),
                        want)
    ELSE With(lzw_next_code(src, z), LAMBDA c :
      IF c.code < 0 THEN [z |-> c.z, dst |-> dst]
      ELSE IF c.code = LZW_CLEAR_CODE
      THEN lzw_decode(src, lzw_clear(c.z), dst, want)
      ELSE IF c.z.prev < 0
      THEN lzw_decode(src,
             [c.z EXCEPT !.prev = c.code,
                         !.invalid = @ \/ c.code >= LZW_FIRST_NEW],
             IF c.code < 256 THEN Append(dst, c.code) ELSE dst, want)
      ELSE
        LET first_ch == IF c.code < c.z.tbl_next THEN Slot(c.z.head, c.code)
                        ELSE Slot(c.z.head, c.z.prev)
            flagged  == [c.z EXCEPT !.invalid = @ \/ c.code > c.z.tbl_next]
        IN  With(lzw_add_entry(flagged, c.z.prev, first_ch), LAMBDA a :
              lzw_decode(src,
                [(IF c.code < a.tbl_next THEN lzw_expand(a, c.code)
                  ELSE lzw_stage(a, a.prev, Slot(a.chain_len, a.prev) + 1,
                                 <<first_ch>>))
                 EXCEPT !.prev = c.code],
                dst, want)))

\* =========================================================================
\* Byte level: StuffIt method 13, LZSS + Huffman (sit13.c)
\* =========================================================================

\* sit13.c:31, 35, 247, 334
M13_SYM_COUNT == 321
M13_WIN_SIZE == 65536
M13_POOL_CAP == 2048
M13_META_SIZE == 37

\* predefined_first (sit13.c:48-105): code lengths of the five built-in
\* first literal/length trees
predefined_first ==
    <<
    <<
       4, 5, 7, 8, 8, 9, 9, 9, 9, 7, 9, 9, 9, 8, 9, 9, 9, 9, 9, 9, 9, 9, 9, 10,
       9, 9, 10, 10, 9, 10, 9, 9, 5, 9, 9, 9, 9, 10, 9, 9, 9, 9, 9, 9, 9, 9, 7, 9,
       9, 8, 9, 9, 9, 9, 9, 9, 9, 9, 9, 9, 9, 9, 9, 9, 9, 8, 9, 9, 8, 8, 9, 9,
       9, 9, 9, 9, 9, 7, 8, 9, 7, 9, 9, 7, 7, 9, 9, 9, 9, 10, 9, 10, 10, 10, 9, 9,
       9, 5, 9, 8, 7, 5, 9, 8, 8, 7, 9, 9, 8, 8, 5, 5, 7, 10, 5, 8, 5, 8, 9, 9,
       9, 9, 9, 10, 9, 9, 10, 9, 9, 10, 10, 10, 10, 10, 10, 10, 9, 10, 10, 10, 10, 10, 10, 10,
       9, 10, 10, 10, 10, 10, 10, 10, 10, 10, 10, 10, 10, 10, 10, 10, 9, 10, 10, 10, 10, 10, 10, 10,
       9, 9, 10, 10, 10, 10, 10, 10, 10, 10, 10, 10, 10, 10, 10, 10, 10, 10, 9, 10, 10, 10, 10, 10,
       9, 10, 10, 10, 10, 10, 10, 10, 10, 10, 10, 10, 10, 10, 10, 10, 10, 10, 10, 10, 10, 10, 10, 10,
       10, 10, 10, 10, 10, 10, 10, 10, 9, 10, 10, 10, 10, 10, 10, 10, 10, 10, 10, 10, 9, 9, 10, 10,
       9, 10, 10, 10, 10, 10, 10, 10, 9, 10, 10, 10, 9, 10, 9, 5, 6, 5, 5, 8, 9, 9, 9, 9,
       9, 9, 10, 10, 10, 9, 10, 10, 10, 10, 10, 10, 10, 10, 10, 10, 10, 10, 10, 10, 10, 10, 10, 10,
       10, 10, 10, 9, 10, 9, 9, 9, 10, 9, 10, 9, 10, 9, 10, 9, 10, 10, 10, 9, 10, 9, 10, 10,
       9, 9, 9, 6, 9, 9, 10, 9, 5
    >>,
    <<
       4, 7, 7, 8, 7, 8, 8, 8, 8, 7, 8, 7, 8, 7, 9, 8, 8, 8, 9, 9, 9, 9, 10, 10,
       9, 10, 10, 10, 10, 10, 9, 9, 5, 9, 8, 9, 9, 11, 10, 9, 8, 9, 9, 9, 8, 9, 7, 8,
       8, 8, 9, 9, 9, 9, 9, 10, 9, 9, 9, 10, 9, 9, 10, 9, 8, 8, 7, 7, 7, 8, 8, 9,
       8, 8, 9, 9, 8, 8, 7, 8, 7, 10, 8, 7, 7, 9, 9, 9, 9, 10, 10, 11, 11, 11, 10, 9,
       8, 6, 8, 7, 7, 5, 7, 7, 7, 6, 9, 8, 6, 7, 6, 6, 7, 9, 6, 6, 6, 7, 8, 8,
       8, 8, 9, 10, 9, 10, 9, 9, 8, 9, 10, 10, 9, 10, 10, 9, 9, 10, 10, 10, 10, 10, 10, 10,
       9, 10, 10, 11, 10, 10, 10, 10, 10, 10, 10, 11, 10, 11, 10, 10, 9, 11, 10, 10, 10, 10, 10, 10,
       9, 9, 10, 11, 10, 11, 10, 11, 10, 12, 10, 11, 10, 12, 11, 12, 10, 12, 10, 11, 10, 11, 11, 11,
       9, 10, 11, 11, 11, 12, 12, 10, 10, 10, 11, 11, 10, 11, 10, 10, 9, 11, 10, 11, 10, 11, 11, 11,
       10, 11, 11, 12, 11, 11, 10, 10, 10, 11, 10, 10, 11, 11, 12, 10, 10, 11, 11, 12, 11, 11, 10, 11,
       9, 12, 10, 11, 11, 11, 10, 11, 10, 11, 10, 11, 9, 10, 9, 7, 3, 5, 6, 6, 7, 7, 8, 8,
       8, 9, 9, 9, 11, 10, 10, 10, 12, 13, 11, 12, 12, 11, 13, 12, 12, 11, 12, 12, 13, 12, 14, 13,
       14, 13, 15, 13, 14, 15, 15, 14, 13, 15, 15, 14, 15, 14, 15, 15, 14, 15, 13, 13, 14, 15, 15, 14,
       14, 16, 16, 15, 15, 15, 12, 15, 10
    >>,
    <<
       6, 6, 6, 6, 6, 9, 8, 8, 4, 9, 8, 9, 8, 9, 9, 9, 8, 9, 9, 10, 8, 10, 10, 10,
       9, 10, 10, 10, 9, 10, 10, 9, 9, 9, 8, 10, 9, 10, 9, 10, 9, 10, 9, 10, 9, 9, 8, 9,
       8, 9, 9, 9, 10, 10, 10, 10, 9, 9, 9, 10, 9, 10, 9, 9, 7, 8, 8, 9, 8, 9, 9, 9,
       8, 9, 9, 10, 9, 9, 8, 9, 8, 9, 8, 8, 8, 9, 9, 9, 9, 9, 10, 10, 10, 10, 10, 9,
       8, 8, 9, 8, 9, 7, 8, 8, 9, 8, 10, 10, 8, 9, 8, 8, 8, 10, 8, 8, 8, 8, 9, 9,
       9, 9, 10, 10, 10, 10, 10, 9, 7, 9, 9, 10, 10, 10, 10, 10, 9, 10, 10, 10, 10, 10, 10, 9,
       9, 10, 10, 10, 10, 10, 10, 10, 10, 9, 10, 10, 10, 10, 10, 10, 9, 10, 10, 10, 10, 10, 10, 10,
       9, 9, 9, 10, 10, 10, 10, 10, 10, 10, 10, 10, 10, 10, 10, 10, 10, 10, 9, 10, 10, 10, 10, 9,
       8, 9, 10, 10, 10, 10, 10, 10, 10, 10, 10, 10, 9, 10, 10, 10, 9, 10, 10, 10, 10, 10, 10, 10,
       10, 10, 10, 10, 10, 10, 10, 9, 9, 10, 10, 10, 10, 10, 10, 9, 10, 10, 10, 10, 10, 10, 9, 9,
       9, 10, 10, 10, 10, 10, 10, 9, 9, 10, 9, 9, 8, 9, 8, 9, 4, 6, 6, 6, 7, 8, 8, 9,
       9, 10, 10, 10, 9, 10, 10, 10, 10, 10, 10, 10, 10, 10, 10, 10, 10, 10, 10, 10, 10, 10, 7, 10,
       10, 10, 7, 10, 10, 7, 7, 7, 7, 7, 6, 7, 10, 7, 7, 10, 7, 7, 7, 6, 7, 6, 6, 7,
       7, 6, 6, 9, 6, 9, 10, 6, 10
    >>,
    <<
       2, 6, 6, 7, 7, 8, 7, 8, 7, 8, 8, 9, 8, 9, 9, 9, 8, 8, 9, 9, 9, 10, 10, 9,
       8, 10, 9, 10, 9, 10, 9, 9, 6, 9, 8, 9, 9, 10, 9, 9, 9, 10, 9, 9, 9, 9, 8, 8,
       8, 8, 8, 9, 9, 9, 9, 9, 9, 9, 9, 9, 9, 10, 10, 9, 7, 7, 8, 8, 8, 8, 9, 9,
       7, 8, 9, 10, 8, 8, 7, 8, 8, 10, 8, 8, 8, 9, 8, 9, 9, 10, 9, 11, 10, 11, 9, 9,
       8, 7, 9, 8, 8, 6, 8, 8, 8, 7, 10, 9, 7, 8, 7, 7, 8, 10, 7, 7, 7, 8, 9, 9,
       9, 9, 10, 11, 9, 11, 10, 9, 7, 9, 10, 10, 10, 11, 11, 10, 10, 11, 10, 10, 10, 11, 11, 10,
       9, 10, 10, 11, 10, 11, 10, 11, 10, 10, 10, 11, 10, 11, 10, 10, 9, 10, 10, 11, 10, 10, 10, 10,
       9, 10, 10, 10, 10, 11, 10, 11, 10, 11, 10, 11, 11, 11, 10, 12, 10, 11, 10, 11, 10, 11, 11, 10,
       8, 10, 10, 11, 10, 11, 11, 11, 10, 11, 10, 11, 10, 11, 11, 11, 9, 10, 11, 11, 10, 11, 11, 11,
       10, 11, 11, 11, 10, 10, 10, 10, 10, 11, 10, 10, 11, 11, 10, 10, 9, 11, 10, 10, 11, 11, 10, 10,
       10, 11, 10, 10, 10, 10, 10, 10, 9, 11, 10, 10, 8, 10, 8, 6, 5, 6, 6, 7, 7, 8, 8, 8,
       9, 10, 11, 10, 10, 11, 11, 12, 12, 10, 11, 12, 12, 12, 12, 13, 13, 13, 13, 13, 12, 13, 13, 15,
       14, 12, 14, 15, 16, 12, 12, 13, 15, 14, 16, 15, 17, 18, 15, 17, 16, 15, 15, 15, 15, 13, 13, 10,
       14, 12, 13, 17, 17, 18, 10, 17, 4
    >>,
    <<
       7, 9, 9, 9, 9, 9, 9, 9, 9, 8, 9, 9, 9, 7, 9, 9, 9, 9, 9, 9, 9, 9, 9, 10,
       9, 10, 9, 10, 9, 10, 9, 9, 5, 9, 7, 9, 9, 9, 9, 9, 7, 7, 7, 9, 7, 7, 8, 7,
       8, 8, 7, 7, 9, 9, 9, 9, 7, 7, 7, 9, 9, 9, 9, 9, 9, 7, 9, 7, 7, 7, 7, 9,
       9, 7, 9, 9, 7, 7, 7, 7, 7, 9, 7, 8, 7, 9, 9, 9, 9, 9, 9, 9, 9, 9, 9, 9,
       9, 7, 8, 7, 7, 7, 8, 8, 6, 7, 9, 7, 7, 8, 7, 5, 6, 9, 5, 7, 5, 6, 7, 7,
       9, 8, 9, 9, 9, 9, 9, 9, 9, 9, 10, 9, 10, 10, 10, 9, 9, 10, 10, 10, 10, 10, 10, 10,
       9, 10, 10, 10, 10, 10, 10, 10, 10, 10, 10, 10, 9, 10, 10, 10, 9, 10, 10, 10, 9, 9, 10, 9,
       9, 9, 9, 10, 10, 10, 10, 10, 10, 10, 10, 10, 10, 10, 9, 10, 10, 10, 10, 10, 10, 10, 10, 10,
       9, 10, 10, 10, 9, 10, 10, 10, 9, 9, 9, 10, 10, 10, 10, 10, 9, 10, 9, 10, 10, 9, 10, 10,
       9, 10, 10, 10, 10, 10, 10, 10, 9, 10, 10, 10, 10, 10, 10, 10, 10, 10, 10, 10, 10, 10, 10, 10,
       9, 10, 10, 10, 10, 10, 10, 10, 9, 10, 9, 10, 9, 10, 10, 9, 5, 6, 8, 8, 7, 7, 7, 9,
       9, 9, 9, 9, 9, 9, 9, 9, 9, 9, 9, 9, 9, 9, 9, 9, 9, 9, 9, 9, 9, 9, 9, 9,
       9, 10, 10, 10, 10, 10, 10, 10, 10, 10, 10, 10, 10, 10, 10, 10, 10, 10, 10, 10, 10, 10, 10, 10,
       9, 10, 10, 5, 10, 8, 9, 8, 9
    >>
    >>

\* predefined_second (sit13.c:107-163)
predefined_second ==
    <<
    <<
       4, 5, 6, 6, 7, 7, 6, 7, 7, 7, 6, 8, 7, 8, 8, 8, 8, 9, 6, 9, 8, 9, 8, 9,
       9, 9, 8, 10, 5, 9, 7, 9, 6, 9, 8, 10, 9, 10, 8, 8, 9, 9, 7, 9, 8, 9, 8, 9,
       8, 8, 6, 9, 9, 8, 8, 9, 9, 10, 8, 9, 9, 10, 8, 10, 8, 8, 8, 8, 8, 9, 7, 10,
       6, 9, 9, 11, 7, 8, 8, 9, 8, 10, 7, 8, 6, 9, 10, 9, 9, 10, 8, 11, 9, 11, 9, 10,
       9, 8, 9, 8, 8, 8, 8, 10, 9, 9, 10, 10, 8, 9, 8, 8, 8, 11, 9, 8, 8, 9, 9, 10,
       8, 11, 10, 10, 8, 10, 9, 10, 8, 9, 9, 11, 9, 11, 9, 10, 10, 11, 10, 12, 9, 12, 10, 11,
       10, 11, 9, 10, 10, 11, 10, 11, 10, 11, 10, 11, 10, 10, 10, 9, 9, 9, 8, 7, 6, 8, 11, 11,
       9, 12, 10, 12, 9, 11, 11, 11, 10, 12, 11, 11, 10, 12, 10, 11, 10, 10, 10, 11, 10, 11, 11, 11,
       9, 12, 10, 12, 11, 12, 10, 11, 10, 12, 11, 12, 11, 12, 11, 12, 10, 12, 11, 12, 11, 11, 10, 12,
       10, 11, 10, 12, 10, 12, 10, 12, 10, 11, 11, 11, 10, 11, 11, 11, 10, 12, 11, 12, 10, 10, 11, 11,
       9, 12, 11, 12, 10, 11, 10, 12, 10, 11, 10, 12, 10, 11, 10, 7, 5, 4, 6, 6, 7, 7, 7, 8,
       8, 7, 7, 6, 8, 6, 7, 7, 9, 8, 9, 9, 10, 11, 11, 11, 12, 11, 10, 11, 12, 11, 12, 11,
       12, 12, 12, 12, 11, 12, 12, 11, 12, 11, 12, 11, 13, 11, 12, 10, 13, 10, 14, 14, 13, 14, 15, 14,
       16, 15, 15, 18, 18, 18, 9, 18, 8
    >>,
    <<
       5, 6, 6, 6, 6, 7, 7, 7, 7, 7, 7, 8, 7, 8, 7, 7, 7, 8, 8, 8, 8, 9, 8, 9,
       8, 9, 9, 9, 7, 9, 8, 8, 6, 9, 8, 9, 8, 9, 8, 9, 8, 9, 8, 9, 8, 9, 8, 8,
       8, 8, 8, 9, 8, 9, 8, 9, 9, 10, 8, 10, 8, 9, 9, 8, 8, 8, 7, 8, 8, 9, 8, 9,
       7, 9, 8, 10, 8, 9, 8, 9, 8, 9, 8, 8, 8, 9, 9, 9, 9, 10, 9, 11, 9, 10, 9, 10,
       8, 8, 8, 9, 8, 8, 8, 9, 9, 8, 9, 10, 8, 9, 8, 8, 8, 11, 8, 7, 8, 9, 9, 9,
       9, 10, 9, 10, 9, 10, 9, 8, 8, 9, 9, 10, 9, 10, 9, 10, 8, 10, 9, 10, 9, 11, 10, 11,
       9, 11, 10, 10, 10, 11, 9, 11, 9, 10, 9, 11, 9, 11, 10, 10, 9, 10, 9, 9, 8, 10, 9, 11,
       9, 9, 9, 11, 10, 11, 9, 11, 9, 11, 9, 11, 10, 11, 10, 11, 10, 11, 9, 10, 10, 11, 10, 10,
       8, 10, 9, 10, 10, 11, 9, 11, 9, 10, 10, 11, 9, 10, 10, 9, 9, 10, 9, 10, 9, 10, 9, 10,
       9, 11, 9, 11, 10, 10, 9, 10, 9, 11, 9, 11, 9, 11, 9, 10, 9, 11, 9, 11, 9, 11, 9, 10,
       8, 11, 9, 10, 9, 10, 9, 10, 8, 10, 8, 9, 8, 9, 8, 7, 4, 4, 5, 6, 6, 6, 7, 7,
       7, 7, 8, 8, 8, 7, 8, 8, 9, 9, 10, 10, 10, 10, 10, 10, 11, 11, 10, 10, 12, 11, 11, 12,
       12, 11, 12, 12, 11, 12, 12, 12, 12, 12, 12, 11, 12, 11, 13, 12, 13, 12, 13, 14, 14, 14, 15, 13,
       14, 13, 14, 18, 18, 17, 7, 16, 9
    >>,
    <<
       5, 6, 6, 6, 6, 7, 7, 7, 6, 8, 7, 8, 7, 9, 8, 8, 7, 7, 8, 9, 9, 9, 9, 10,
       8, 9, 9, 10, 8, 10, 9, 8, 6, 10, 8, 10, 8, 10, 9, 9, 9, 9, 9, 10, 9, 9, 8, 9,
       8, 9, 8, 9, 9, 10, 9, 10, 9, 9, 8, 10, 9, 11, 10, 8, 8, 8, 8, 9, 7, 9, 9, 10,
       8, 9, 8, 11, 9, 10, 9, 10, 8, 9, 9, 9, 9, 8, 9, 9, 10, 10, 10, 12, 10, 11, 10, 10,
       8, 9, 9, 9, 8, 9, 8, 8, 10, 9, 10, 11, 8, 10, 9, 9, 8, 12, 8, 9, 9, 9, 9, 8,
       9, 10, 9, 12, 10, 10, 10, 8, 7, 11, 10, 9, 10, 11, 9, 11, 7, 11, 10, 12, 10, 12, 10, 11,
       9, 11, 9, 12, 10, 12, 10, 12, 10, 9, 11, 12, 10, 12, 10, 11, 9, 10, 9, 10, 9, 11, 11, 12,
       9, 10, 8, 12, 11, 12, 9, 12, 10, 12, 10, 13, 10, 12, 10, 12, 10, 12, 10, 9, 10, 12, 10, 9,
       8, 11, 10, 12, 10, 12, 10, 12, 10, 11, 10, 12, 8, 12, 10, 11, 10, 10, 10, 12, 9, 11, 10, 12,
       10, 12, 11, 12, 10, 9, 10, 12, 9, 10, 10, 12, 10, 11, 10, 11, 10, 12, 8, 12, 9, 12, 8, 12,
       8, 11, 10, 11, 10, 11, 9, 10, 8, 10, 9, 9, 8, 9, 8, 7, 4, 3, 5, 5, 6, 5, 6, 6,
       7, 7, 8, 8, 8, 7, 7, 7, 9, 8, 9, 9, 11, 9, 11, 9, 8, 9, 9, 11, 12, 11, 12, 12,
       13, 13, 12, 13, 14, 13, 14, 13, 14, 13, 13, 13, 12, 13, 13, 12, 13, 13, 14, 14, 13, 13, 14, 14,
       14, 14, 15, 18, 17, 18, 8, 16, 10
    >>,
    <<
       4, 5, 6, 6, 6, 6, 7, 7, 6, 7, 7, 9, 6, 8, 8, 7, 7, 8, 8, 8, 6, 9, 8, 8,
       7, 9, 8, 9, 8, 9, 8, 9, 6, 9, 8, 9, 8, 10, 9, 9, 8, 10, 8, 10, 8, 9, 8, 9,
       8, 8, 7, 9, 9, 9, 9, 9, 8, 10, 9, 10, 9, 10, 9, 8, 7, 8, 9, 9, 8, 9, 9, 9,
       7, 10, 9, 10, 9, 9, 8, 9, 8, 9, 8, 8, 8, 9, 9, 10, 9, 9, 8, 11, 9, 11, 10, 10,
       8, 8, 10, 8, 8, 9, 9, 9, 10, 9, 10, 11, 9, 9, 9, 9, 8, 9, 8, 8, 8, 10, 10, 9,
       9, 8, 10, 11, 10, 11, 11, 9, 8, 9, 10, 11, 9, 10, 11, 11, 9, 12, 10, 10, 10, 12, 11, 11,
       9, 11, 11, 12, 9, 11, 9, 10, 10, 10, 10, 12, 9, 11, 10, 11, 9, 11, 11, 11, 10, 11, 11, 12,
       9, 10, 10, 12, 11, 11, 10, 11, 9, 11, 10, 11, 10, 11, 9, 11, 11, 9, 8, 11, 10, 11, 11, 10,
       7, 12, 11, 11, 11, 11, 11, 12, 10, 12, 11, 13, 11, 10, 12, 11, 10, 11, 10, 11, 10, 11, 11, 11,
       10, 12, 11, 11, 10, 11, 10, 10, 10, 11, 10, 12, 11, 12, 10, 11, 9, 11, 10, 11, 10, 11, 10, 12,
       9, 11, 11, 11, 9, 11, 10, 10, 9, 11, 10, 10, 9, 10, 9, 7, 4, 5, 5, 5, 6, 6, 7, 6,
       8, 7, 8, 9, 9, 7, 8, 8, 10, 9, 10, 10, 12, 10, 11, 11, 11, 11, 10, 11, 12, 11, 11, 11,
       11, 11, 13, 12, 11, 12, 13, 12, 12, 12, 13, 11, 9, 12, 13, 7, 13, 11, 13, 11, 10, 11, 13, 15,
       15, 12, 14, 15, 15, 15, 6, 15, 5
    >>,
    <<
       8, 10, 11, 11, 11, 12, 11, 11, 12, 6, 11, 12, 10, 5, 12, 12, 12, 12, 12, 12, 12, 13, 13, 14,
       13, 13, 12, 13, 12, 13, 12, 15, 4, 10, 7, 9, 11, 11, 10, 9, 6, 7, 8, 9, 6, 7, 6, 7,
       8, 7, 7, 8, 8, 8, 8, 8, 8, 9, 8, 7, 10, 9, 10, 10, 11, 7, 8, 6, 7, 8, 8, 9,
       8, 7, 10, 10, 8, 7, 8, 8, 7, 10, 7, 6, 7, 9, 9, 8, 11, 11, 11, 10, 11, 11, 11, 8,
       11, 6, 7, 6, 6, 6, 6, 8, 7, 6, 10, 9, 6, 7, 6, 6, 7, 10, 6, 5, 6, 7, 7, 7,
       10, 8, 11, 9, 13, 7, 14, 16, 12, 14, 14, 15, 15, 16, 16, 14, 15, 15, 15, 15, 15, 15, 15, 15,
       14, 15, 13, 14, 14, 16, 15, 17, 14, 17, 15, 17, 12, 14, 13, 16, 12, 17, 13, 17, 14, 13, 13, 14,
       14, 12, 13, 15, 15, 14, 15, 17, 14, 17, 15, 14, 15, 16, 12, 16, 15, 14, 15, 16, 15, 16, 17, 17,
       15, 15, 17, 17, 13, 14, 15, 15, 13, 12, 16, 16, 17, 14, 15, 16, 15, 15, 13, 13, 15, 13, 16, 17,
       15, 17, 17, 17, 16, 17, 14, 17, 14, 16, 15, 17, 15, 15, 14, 17, 15, 17, 15, 16, 15, 15, 16, 16,
       14, 17, 17, 15, 15, 16, 15, 17, 15, 14, 16, 16, 16, 16, 16, 12, 4, 4, 5, 5, 6, 6, 6, 7,
       7, 7, 8, 8, 8, 8, 9, 9, 9, 9, 9, 10, 10, 10, 11, 10, 11, 11, 11, 11, 11, 12, 12, 12,
       13, 13, 12, 13, 12, 14, 14, 12, 13, 13, 13, 13, 14, 12, 13, 13, 14, 14, 14, 13, 14, 14, 15, 15,
       13, 15, 13, 17, 17, 17, 9, 17, 7
    >>
    >>

\* predefined_dist (sit13.c:165-170), the rows zero-filled to 14 entries
predefined_dist ==
    << <<5, 6, 3, 3, 3, 3, 3, 3, 3, 4, 6, 0, 0, 0>>,
       <<5, 6, 4, 4, 3, 3, 3, 3, 3, 4, 4, 4, 6, 0>>,
       <<6, 7, 4, 4, 3, 3, 3, 3, 3, 4, 4, 4, 5, 7>>,
       <<3, 6, 5, 4, 2, 3, 3, 3, 4, 4, 6, 0, 0, 0>>,
       <<6, 7, 7, 6, 4, 3, 2, 2, 3, 3, 6, 0, 0, 0>> >>

\* predefined_dist_nsym (sit13.c:173)
predefined_dist_nsym == <<11, 13, 14, 11, 11>>

\* m13_meta_words, m13_meta_lens (sit13.c:336-346)
m13_meta_words ==
    << 221, 26, 2, 3, 0, 15, 53, 5, 6, 7,
       27, 52, 1, 1, 14, 12, 54, 445, 6, 11,
       14, 31, 30, 9, 8, 10, 444, 447, 446, 441,
       440, 4, 2, 1, 7, 12, 2 >>

m13_meta_lens ==
    << 11, 8, 8, 8, 8, 7, 6, 5, 5, 5, 5, 6, 5,
       6, 7, 7, 9, 12, 10, 11, 11, 12, 12, 11, 11, 11,
       12, 12, 12, 12, 12, 5, 2, 2, 3, 4, 5 >>

\* m13_bitrd_t (sit13.c:186-201) is held as the number of bits consumed:
\* m13_br_refill (sit13.c:205-210) loads whole bytes, least significant
\* bit first, as long as there are any, and past the end of src the
\* accumulator shifts in zero bits (avail goes negative, nothing tests it)
m13_br_init == 0

RECURSIVE m13_bits(_, _, _)
\* the n bits of src from bit `from` on, the first one least significant
m13_bits(src, from, n) ==
    IF n = 0 THEN 0
    ELSE (IF from \div 8 < Len(src)
          THEN (At(src, from \div 8) \div (2 ^ (from % 8))) % 2 ELSE 0)
         + 2 * m13_bits(src, from + 1, n - 1)

\* m13_br_read (sit13.c:213-221), 0 <= n <= 24: [br, v]
m13_br_read(src, br, n) == [br |-> br + n, v |-> m13_bits(src, br, n)]

\* m13_br_bit (sit13.c:224-231)
m13_br_bit(src, br) == m13_br_read(src, br, 1)

\* m13_pool_alloc (sit13.c:260-266): the pool is held as the sequence of
\* its nodes in use, pool_used is its length.  A pool longer than
\* M13_POOL_CAP stands for writes beyond the array.
m13_pool_alloc(pool) == Append(pool, [ch |-> <<-1, -1>>, sym |-> -1])

RECURSIVE m13_pool_insert(_, _, _, _, _)
\* m13_pool_insert (sit13.c:273-283), `cur` the node reached and `bit`
\* the next bit of the code to follow (len - 1 at the root)
m13_pool_insert(pool, cur, code, bit, sym) ==
    IF bit < 0 THEN [pool EXCEPT ![cur + 1].sym = sym]
    ELSE LET b == (code \div (2 ^ bit)) % 2
         IN  IF At(pool, cur).ch[b + 1] < 0
             THEN m13_pool_insert(
                    m13_pool_alloc([pool EXCEPT ![cur + 1].ch[b + 1] = Len(pool)]),
                    Len(pool), code, bit - 1, sym)
             ELSE m13_pool_insert(pool, At(pool, cur).ch[b + 1], code,
                                  bit - 1, sym)

\* the symbols that get a code: those of positive length (sit13.c:297)
m13_coded(lengths, nsym) == {s \in 0..(nsym - 1) : At(lengths, s) > 0}

\* symbol t is met before symbol s by the two loops of m13_build_canonical
\* (sit13.c:293-295): by code length first, then by symbol
m13_canon_before(lengths, t, s) ==
    \/ At(lengths, t) < At(lengths, s)
    \/ At(lengths, t) = At(lengths, s) /\ t < s

\* the coded symbols in the order the loops meet them
m13_canon_order(lengths, nsym) ==
    With(m13_coded(lengths, nsym), LAMBDA coded :
    With([s \in coded |->
            Cardinality({t \in coded : m13_canon_before(lengths, t, s)})],
         LAMBDA rank :
      [k \in 1..Cardinality(coded) |->
         CHOOSE s \in coded : rank[s] = k - 1]))

RECURSIVE m13_canon(_, _, _, _, _, _)
\* the turns of the loops of m13_build_canonical (sit13.c:293-304) that
\* insert the symbols order[lo + 1 .. hi], the first half of them and then
\* the rest, on st = [pool, code, len]: code was last touched in the turn
\* for length st.len, and every length counted since shifted it once
m13_canon(st, root, lengths, order, lo, hi) ==
    IF hi - lo = 0 THEN st
    ELSE IF hi - lo = 1
    THEN LET len  == At(lengths, order[hi])
             code == st.code * (2 ^ (len - st.len))
         IN  [pool |-> m13_pool_insert(st.pool, root, code, len - 1,
                                       order[hi]),
              code |-> code + 1, len |-> len]
    ELSE With(m13_canon(st, root, lengths, order, lo, (lo + hi) \div 2),
              LAMBDA half :
           m13_canon(half, root, lengths, order, (lo + hi) \div 2, hi))

\* m13_build_canonical (sit13.c:289-306): [pool, root, hang].  The loop
\* counts the code length up from -1 until every symbol was assigned: a
\* length below -1 is not met before the int len overflows, and the loop
\* does not end within defined behaviour (hang).  The
\* turns for the lengths -1 and 0 insert nothing and only count code up,
\* with one shift between them.
m13_build_canonical(pool, lengths, nsym) ==
    IF \E s \in 0..(nsym - 1) : At(lengths, s) < -1
    THEN [pool |-> m13_pool_alloc(pool), root |-> Len(pool), hang |-> TRUE]
    ELSE With(m13_canon_order(lengths, nsym), LAMBDA order :
           [pool |-> m13_canon(
                       [pool |-> m13_pool_alloc(pool),
                        code |-> 2 * Cardinality({s \in 0..(nsym - 1) :
                                                   At(lengths, s) = -1})
                                 + Cardinality({s \in 0..(nsym - 1) :
                                                  At(lengths, s) = 0}),
                        len |-> 0],
                       Len(pool), lengths, order, 0, Len(order)).pool,
            root |-> Len(pool), hang |-> FALSE])

RECURSIVE m13_huff_decode(_, _, _, _)
\* m13_huff_decode (sit13.c:312-322) from node cur on: [br, sym]
m13_huff_decode(src, pool, cur, br) ==
    IF At(pool, cur).sym # -1 THEN [br |-> br, sym |-> At(pool, cur).sym]
    ELSE LET nxt == At(pool, cur).ch[m13_br_bit(src, br).v + 1]
         IN  IF nxt < 0 THEN [br |-> br + 1, sym |-> -1]
             ELSE m13_huff_decode(src, pool, nxt, br + 1)

RECURSIVE m13_meta_from(_, _, _, _)
\* m13_build_meta_tree (sit13.c:353-359): the turns of the loop for the
\* words lo .. hi - 1, the first half of them and then the rest
m13_meta_from(pool, root, lo, hi) ==
    IF hi - lo = 0 THEN pool
    ELSE IF hi - lo = 1
    THEN m13_pool_insert(pool, root, At(m13_meta_words, lo),
                         At(m13_meta_lens, lo) - 1, lo)
    ELSE With(m13_meta_from(pool, root, lo, (lo + hi) \div 2),
              LAMBDA half :
           m13_meta_from(half, root, (lo + hi) \div 2, hi))

m13_build_meta_tree(pool) ==
    [pool |-> m13_meta_from(m13_pool_alloc(pool), Len(pool), 0,
                            M13_META_SIZE),
     root |-> Len(pool)]

\* (int8_t)v
Int8(v) == ((v + 128) % 256) - 128

\* out[i++] = (int8_t)len, `times` times, on w = [out, i, overrun]; out is
\* the array lengths[M13_SYM_COUNT] of m13_setup, and a store at an index
\* beyond it is recorded as an overrun, not made
m13_emit(w, len, times) ==
    [out |-> [k \in 1..M13_SYM_COUNT |->
                IF k - 1 >= w.i /\ k - 1 < w.i + times THEN Int8(len)
                ELSE w.out[k]],
     i |-> w.i + times,
     overrun |-> w.overrun \/ w.i + times > M13_SYM_COUNT]

\* one turn of the while loop of m13_decode_lengths (sit13.c:369-411) on
\* s = [br, w, len]
m13_decode_length(src, pool, meta_root, s) ==
    With(m13_huff_decode(src, pool, meta_root, s.br), LAMBDA c :
      LET cmd == c.sym
          Go(b, l, times) ==
              [br |-> b, w |-> m13_emit(s.w, l, times), len |-> l]
      IN  IF cmd <= 30 THEN Go(c.br, cmd + 1, 1)
          ELSE IF cmd = 31 THEN Go(c.br, 0, 1)
          ELSE IF cmd = 32 THEN Go(c.br, s.len + 1, 1)
          ELSE IF cmd = 33 THEN Go(c.br, s.len - 1, 1)
          ELSE IF cmd = 34
          THEN Go(c.br + 1, s.len, m13_br_read(src, c.br, 1).v + 1)
          ELSE IF cmd = 35
          THEN Go(c.br + 3, s.len, (m13_br_read(src, c.br, 3).v + 2) + 1)
          ELSE IF cmd = 36
          THEN Go(c.br + 6, s.len, (m13_br_read(src, c.br, 6).v + 10) + 1)
          ELSE Go(c.br, s.len, 1))

RECURSIVE m13_decode_turns(_, _, _, _, _, _)
\* up to n turns of that loop, fewer when i reaches nsym: the first half of
\* them, then the rest
m13_decode_turns(src, pool, meta_root, s, nsym, n) ==
    IF n <= 0 \/ ~(s.w.i < nsym) THEN s
    ELSE IF n = 1 THEN m13_decode_length(src, pool, meta_root, s)
    ELSE With(m13_decode_turns(src, pool, meta_root, s, nsym, n \div 2),
              LAMBDA half :
           m13_decode_turns(src, pool, meta_root, half, nsym,
                            n - (n \div 2)))

\* m13_decode_lengths (sit13.c:365-412) on w = [out, i, overrun]:
\* [br, out, i, overrun].  Every turn raises i, so nsym turns end the loop.
m13_decode_lengths(src, pool, meta_root, br, w, nsym) ==
    With(m13_decode_turns(src, pool, meta_root,
                          [br |-> br, w |-> w, len |-> 0], nsym, nsym),
         LAMBDA s :
      [br |-> s.br, out |-> s.w.out, i |-> s.w.i, overrun |-> s.w.overrun])

\* one tree of the dynamic mode (sit13.c:480-483, 490-493, 497-500): the
\* code lengths decoded into `lengths`, then the canonical tree;
\* [br, pool, root, lengths, hang, overrun, excess], excess the entries
\* stored beyond the nsym of the tree
m13_dynamic_tree(src, pool, meta_root, br, lengths, nsym) ==
    With(m13_decode_lengths(src, pool, meta_root, br,
                            [out |-> lengths, i |-> 0, overrun |-> FALSE],
                            nsym), LAMBDA d :
      With(m13_build_canonical(pool, d.out, nsym), LAMBDA t :
        [br |-> d.br, pool |-> t.pool, root |-> t.root, lengths |-> d.out,
         hang |-> t.hang, overrun |-> d.overrun, excess |-> d.i - nsym]))

\* the decoder state after m13_setup; hang: a loop of m13_build_canonical
\* that does not end within defined behaviour; overrun: a store beyond
\* lengths[]; ub: one of the two; excess: the most entries a code-length
\* list stored beyond the symbol count of its tree;
\* matches: the matches staged so far, each with the output position it
\* starts at (kept for the properties)
M13State(br, pool, first, second, dist, hang, overrun, excess) ==
    [br |-> br, pool |-> pool, root_first |-> first, root_second |-> second,
     root_dist |-> dist, root_active |-> first, match_left |-> 0,
     match_from |-> 0, ok |-> TRUE, ub |-> hang \/ overrun, hang |-> hang,
     overrun |-> overrun, excess |-> excess, matches |-> <<>>]

\* the predefined mode of m13_setup (sit13.c:501-513)
m13_predefined(set) ==
    With(m13_build_canonical(<<>>, predefined_first[set], M13_SYM_COUNT),
         LAMBDA f :
    With(m13_build_canonical(f.pool, predefined_second[set], M13_SYM_COUNT),
         LAMBDA s :
    With(m13_build_canonical(s.pool, predefined_dist[set],
                             predefined_dist_nsym[set]), LAMBDA d :
       M13State(8, d.pool, f.root, s.root, d.root, FALSE, FALSE, 0))))

\* the five states the predefined mode can set up, built once
m13_predefined_states == [set \in 1..5 |-> m13_predefined(set)]

\* m13_setup (sit13.c:457-524)
m13_setup(src) ==
    LET hdr    == m13_br_read(src, m13_br_init, 8).v
        set    == hdr \div 16
        shared == (hdr \div 8) % 2 = 1
        dist_n == (hdr % 8) + 10
    IN
    IF set = 0
    THEN With(m13_build_meta_tree(<<>>), LAMBDA m :
         With(m13_dynamic_tree(src, m.pool, m.root, 8,
                               [k \in 1..M13_SYM_COUNT |-> 0], M13_SYM_COUNT),
              LAMBDA f :
         With(IF shared THEN f
              ELSE m13_dynamic_tree(src, f.pool, m.root, f.br, f.lengths,
                                    M13_SYM_COUNT), LAMBDA s :
         With(m13_dynamic_tree(src, s.pool, m.root, s.br, s.lengths, dist_n),
              LAMBDA d :
           M13State(d.br, d.pool, f.root, s.root, d.root,
                    f.hang \/ s.hang \/ d.hang,
                    f.overrun \/ s.overrun \/ d.overrun,
                    Max(Max(f.excess, s.excess), d.excess))))))
    ELSE IF set >= 1 /\ set <= 5 THEN m13_predefined_states[set]
    ELSE [M13State(8, <<>>, 0, 0, 0, FALSE, FALSE, 0) EXCEPT !.ok = FALSE]

\* a window read that does not see the byte written last
m13_window_Stale(dst, idx) ==
    IF idx % M13_WIN_SIZE < Len(dst) - 1 THEN At(dst, idx % M13_WIN_SIZE)
    ELSE 0

\* st->window[idx & M13_WIN_MASK] (sit13.c:536): the window is zero-filled
\* (sit13.c:459) and holds the output dst from index 0 on, as long as
\* fewer than M13_WIN_SIZE bytes were produced
m13_window(dst, idx) ==
    IF idx % M13_WIN_SIZE < Len(dst) THEN At(dst, idx % M13_WIN_SIZE) ELSE 0

RECURSIVE m13_output(_, _, _, _)
\* m13_output (sit13.c:530-602), its while loop with dst the bytes produced
\* so far (wpos is their number): [n, dst, st], n = -1 on failure
m13_output(src, st, dst, cap) ==
    IF ~(Len(dst) < cap) THEN [n |-> Len(dst), dst |-> dst, st |-> st]
    ELSE IF st.match_left > 0
    THEN m13_output(src,
           [st EXCEPT !.match_from = @ + 1,
                      !.match_left = @ - 1,
                      !.root_active = IF st.match_left - 1 = 0
                                      THEN st.root_second ELSE @],
           Append(dst, m13_window(dst, st.match_from)), cap)
    ELSE With(m13_huff_decode(src, st.pool, st.root_active, st.br), LAMBDA c :
      LET s1 == [st EXCEPT !.br = c.br] IN
      IF c.sym < 0 THEN [n |-> -1, dst |-> dst, st |-> s1]
      ELSE IF c.sym < 256
      THEN m13_output(src, [s1 EXCEPT !.root_active = st.root_first],
                      Append(dst, c.sym), cap)
      ELSE IF c.sym > 319 THEN [n |-> -1, dst |-> dst, st |-> s1]
      ELSE
        LET extra == IF c.sym = 318 THEN 10 ELSE IF c.sym = 319 THEN 15 ELSE 0
            mlen  == IF c.sym <= 317 THEN c.sym - 253
                     ELSE m13_br_read(src, c.br, extra).v + 65
        IN  With(m13_huff_decode(src, st.pool, st.root_dist, c.br + extra),
                 LAMBDA d :
              IF d.sym < 0
              THEN [n |-> -1, dst |-> dst, st |-> [st EXCEPT !.br = d.br]]
              ELSE LET nb   == IF d.sym = 0 THEN 0 ELSE d.sym - 1
                       dist == IF d.sym = 0 THEN 1
                               ELSE 2 ^ (d.sym - 1)
                                      + m13_br_read(src, d.br, nb).v + 1
                   IN  m13_output(src,
                         [st EXCEPT !.br = d.br + nb,
                                    !.match_left = mlen,
                                    !.match_from = Len(dst) - dist,
                                    !.matches = Append(@,
                                        [at |-> Len(dst), len |-> mlen,
                                         dist |-> dist])],
                         dst, cap)))

\* peel_sit13 (sit13.c:615-661), the allocations of out and st succeeding:
\* [ok, msg, bytes, exhausted, ub, matches].  exhausted: bits were
\* consumed beyond the end of src.
peel_sit13(src, uncomp_len) ==
    IF uncomp_len = 0
    THEN [ok |-> TRUE, bytes |-> <<>>, exhausted |-> FALSE, ub |-> FALSE,
          msg |-> "", matches |-> <<>>]
    ELSE
    With(m13_setup(src), LAMBDA st :
      IF ~st.ok
      THEN [ok |-> FALSE, bytes |-> <<>>, exhausted |-> FALSE, ub |-> FALSE,
            msg |-> "sit13: invalid header or tree construction failed",
            matches |-> <<>>]
      ELSE IF st.ub
      THEN [ok |-> FALSE, bytes |-> <<>>, exhausted |-> FALSE, ub |-> TRUE,
            msg |-> "", matches |-> <<>>]
      ELSE With(m13_output(src, st, <<>>, uncomp_len), LAMBDA r :
        IF r.n < 0 \/ r.n # uncomp_len
        THEN [ok |-> FALSE, bytes |-> <<>>, ub |-> FALSE,
              exhausted |-> r.st.br > 8 * Len(src),
              msg |-> "sit13: decompression failed",
              matches |-> r.st.matches]
        ELSE [ok |-> TRUE, bytes |-> r.dst, ub |-> FALSE,
              exhausted |-> r.st.br > 8 * Len(src), msg |-> "",
              matches |-> r.st.matches]))

\* =========================================================================
\* Byte level: StuffIt forks (sit.c)
\* =========================================================================

\* sit_fork_info_t (sit.c:84-90); data holds the packed_len bytes at the
\* pointer
ForkInfo(method, raw_len, crc, data) ==
    [raw_len |-> raw_len, packed_len |-> Len(data), crc |-> crc,
     method |-> method, data |-> data]

RECURSIVE rle90(_, _, _, _, _)
\* the RLE90 loop of decompress_fork (sit.c:485-510) from src_off on, with
\* `out` the bytes produced so far: the bytes produced when it ends
rle90(src, src_off, out, last_byte, raw_len) ==
    IF ~(Len(out) < raw_len /\ src_off < Len(src)) THEN out
    ELSE LET b == At(src, src_off) IN
      IF b # RLE_MARKER
      THEN rle90(src, src_off + 1, Append(out, b), b, raw_len)
      ELSE IF src_off + 1 >= Len(src) THEN out
      ELSE LET n == At(src, src_off + 1) IN
        IF n = 0
        THEN rle90(src, src_off + 2, Append(out, RLE_MARKER), last_byte,
                   raw_len)
        ELSE IF n > 1
        THEN rle90(src, src_off + 2,
                   out \o [k \in 1..MinOf({n - 1, raw_len - Len(out)}) |->
                             last_byte],
                   last_byte, raw_len)
        ELSE rle90(src, src_off + 2, out, last_byte, raw_len)

\* what a fork decoder did, kept for the properties: the bytes it produced
\* before any check, whether the compressed stream ran dry before raw_len
\* bytes were there, whether an LZW code named a missing entry
ForkRec(fi, produced, invalid, exhausted) ==
    [method |-> fi.method, raw_len |-> fi.raw_len, crc |-> fi.crc,
     produced |-> produced, invalid |-> invalid, exhausted |-> exhausted,
     matches |-> <<>>]

\* a fork decoder's verdict: the bytes, or the message of its error
ForkOk(bytes, rec) == [ok |-> TRUE, bytes |-> bytes, msg |-> "", rec |-> rec]
ForkErr(msg, rec) == [ok |-> FALSE, bytes |-> <<>>, msg |-> msg, rec |-> rec]

\* the check with the comparison left out
ForkCrcCheck_Skipped(fi, out, rec) == ForkOk(out, rec)

\* sit.c:535-541 (and 442-448): the CRC of what was produced against the
\* stored one
ForkCrcCheck(fi, out, rec) ==
    IF sit_crc(out) # fi.crc
    THEN ForkErr("SIT: fork CRC mismatch", rec)
    ELSE ForkOk(out, rec)

\* decompress_fork (sit.c:430-544), every allocation but that of the error
\* object succeeding.  o15 is the verdict of peel_sit15 (sit15.c), whose
\* arithmetic decoder is not followed bit by bit.  `mem`: make_err can
\* allocate; when it cannot, *err stays NULL and the caller is handed the
\* zero buffer (the result of a method-13 failure is first put through
\* the CRC comparison).
decompress_fork_verdict(fi, mem, o15) ==
    IF fi.method = 13
    THEN With(peel_sit13(fi.data, fi.raw_len), LAMBDA r :
           LET rec == [ForkRec(fi, r.bytes, FALSE, r.exhausted)
                         EXCEPT !.matches = r.matches]
           IN
           IF ~r.ok /\ mem THEN ForkErr(r.msg, rec)
           ELSE ForkCrcCheck(fi, r.bytes, rec))
    ELSE IF fi.method = 15
    THEN IF o15.ok
         THEN ForkOk([k \in 1..fi.raw_len |-> o15.fill],
                     ForkRec(fi, [k \in 1..fi.raw_len |-> o15.fill],
                             FALSE, FALSE))
         ELSE ForkErr("sit15: decode failed", ForkRec(fi, <<>>, FALSE, FALSE))
    ELSE IF fi.method = 0
    THEN IF fi.packed_len < fi.raw_len
         THEN ForkErr("SIT: method 0 packed < raw",
                      ForkRec(fi, <<>>, FALSE, TRUE))
         ELSE ForkCrcCheck(fi, SubSeq(fi.data, 1, fi.raw_len),
                           ForkRec(fi, SubSeq(fi.data, 1, fi.raw_len),
                                   FALSE, FALSE))
    ELSE IF fi.method = 1
    THEN With(rle90(fi.data, 0, <<>>, 0, fi.raw_len), LAMBDA out :
           ForkCrcCheck(fi, out,
                        ForkRec(fi, out, FALSE, Len(out) < fi.raw_len)))
    ELSE IF fi.method = 2
    THEN With(lzw_decode(fi.data, lzw_create, <<>>, fi.raw_len), LAMBDA r :
           ForkCrcCheck(fi, r.dst,
                        ForkRec(fi, r.dst, r.z.invalid,
                                Len(r.dst) < fi.raw_len)))
    ELSE ForkErr("SIT: unsupported compression method",
                 ForkRec(fi, <<>>, FALSE, FALSE))

\* decompress_fork as its caller sees it: [buf, err, heap, v], v the
\* verdict above
decompress_fork(h, fi, mem, o15) ==
    With(decompress_fork_verdict(fi, mem, o15), LAMBDA v :
      IF v.ok
      THEN IF Len(v.bytes) = 0 /\ fi.method = 13
           THEN [buf |-> ZeroBuf, err |-> NULL, heap |-> h, v |-> v]
           ELSE [buf |-> OwnedBuf(NewId(h), Bytes(v.bytes)), err |-> NULL,
                 heap |-> Alloc(h), v |-> v]
      ELSE With(make_err(h, mem), LAMBDA m :
             [buf |-> ZeroBuf, err |-> m.err, heap |-> m.heap, v |-> v]))

\* =========================================================================
\* Byte level: StuffIt archives, classic and SIT5 (sit.c)
\* =========================================================================

\* sit.c:48, 51, 54-55, 58, 61
SIT_ENTRY_HDR_SIZE == 112
SIT5_MIN_SIZE == 100
SIT_FOLDER_START == 32
SIT_FOLDER_END == 33
SIT_MAX_DEPTH == 10
SIT5_MAX_DIRS == 32

\* x & mask != 0 for a one-bit mask
BitSet(x, mask) == (x \div mask) % 2 = 1

\* sit_entry_t (sit.c:93-101); names are byte strings
SitEntry(name, ftype, fcreator, fflags, data_fork, rsrc_fork, has_rsrc) ==
    [name |-> name, mac_type |-> ftype, mac_creator |-> fcreator,
     finder_flags |-> fflags, data_fork |-> data_fork,
     rsrc_fork |-> rsrc_fork, has_rsrc |-> has_rsrc]

\* what a parser ends with: the entries on success, the message on failure.
\* cut: the loop ended at an entry header that does not fit in the input
\* while entries were still expected; enc: an entry flagged as encrypted
\* was listed (neither is part of the C state)
ParseOk(entries, cut, enc) ==
    [ok |-> TRUE, entries |-> entries, msg |-> "", cut |-> cut, enc |-> enc]
ParseErr(msg) ==
    [ok |-> FALSE, entries |-> <<>>, msg |-> msg, cut |-> FALSE,
     enc |-> FALSE]

RECURSIVE JoinDirs(_, _)
\* sit.c:641-649: every folder of the stack followed by '/'
JoinDirs(dirs, d) ==
    IF d > Len(dirs) THEN <<>> ELSE dirs[d] \o <<47>> \o JoinDirs(dirs, d + 1)

\* the folder stack after a folder end marker, were it to pop nothing
classic_folder_end_NoPop(dirs) == dirs

\* sit.c:616-618: a folder end marker pops the folder stack, unless it is
\* empty
classic_folder_end(dirs) ==
    IF Len(dirs) > 0 THEN SubSeq(dirs, 1, Len(dirs) - 1) ELSE dirs

\* sit.c:604-611: a folder start marker is pushed while the stack has room
\* and the name fits
classic_folder_pushed(dirs, nlen) == Len(dirs) < SIT_MAX_DEPTH /\ nlen < 64

\* what a turn of the loop of parse_classic ends with: the result of the
\* function, or the locals of the next turn
ClassicDone(res) == [done |-> TRUE, res |-> res]
ClassicAgain(cursor, done, dirs, entries, enc) ==
    [done |-> FALSE,
     st |-> [cursor |-> cursor, done |-> done, dirs |-> dirs,
             entries |-> entries, enc |-> enc]]

\* one turn of the loop of parse_classic (sit.c:597-705), its condition
\* included; names shorter than the buffers they are copied to (64 and 512
\* bytes)
parse_classic_turn(base, file_count, cursor, done, dirs, entries, enc) ==
    IF ~(done < file_count) THEN ClassicDone(ParseOk(entries, FALSE, enc))
    ELSE IF cursor + SIT_ENTRY_HDR_SIZE > Len(base)
    THEN ClassicDone(ParseOk(entries, TRUE, enc))
    ELSE
      LET hdr  == SubSeq(base, cursor + 1, cursor + SIT_ENTRY_HDR_SIZE)
          rm   == At(hdr, 0)
          dm   == At(hdr, 1)
          nlen == At(hdr, 2)
          Skip(ds) == ClassicAgain(cursor + SIT_ENTRY_HDR_SIZE, done + 1, ds,
                                   entries, enc)
      IN
      IF rm = SIT_FOLDER_START \/ dm = SIT_FOLDER_START
      THEN Skip(IF classic_folder_pushed(dirs, nlen)
                THEN Append(dirs, SubSeq(hdr, 4, 3 + nlen)) ELSE dirs)
      ELSE IF rm = SIT_FOLDER_END \/ dm = SIT_FOLDER_END
      THEN Skip(classic_folder_end(dirs))
      ELSE IF rm \div 32 # 0 \/ dm \div 32 # 0 THEN Skip(dirs)
      ELSE
        LET fname == SubSeq(hdr, 4, 3 + MinOf({nlen, 63}))
            rulen == rd32be(hdr, 84)
            dulen == rd32be(hdr, 88)
            rclen == rd32be(hdr, 92)
            dclen == rd32be(hdr, 96)
            rsrc  == cursor + SIT_ENTRY_HDR_SIZE
            data  == rsrc + rclen
        IN  IF data + dclen > Len(base)
            THEN ClassicDone(ParseErr(
                   "SIT classic: fork data extends past archive end"))
            ELSE ClassicAgain(data + dclen, done + 1, dirs,
                   Append(entries,
                     SitEntry(JoinDirs(dirs, 1) \o fname,
                              rd32be(hdr, 66), rd32be(hdr, 70),
                              rd16be(hdr, 74),
                              ForkInfo(dm % 16, dulen, rd16be(hdr, 102),
                                       SubSeq(base, data + 1, data + dclen)),
                              ForkInfo(rm % 16, rulen, rd16be(hdr, 100),
                                       SubSeq(base, rsrc + 1, rsrc + rclen)),
                              rulen > 0)),
                   enc \/ BitSet(rm, 16) \/ BitSet(dm, 16))

RECURSIVE parse_classic_loop(_, _, _, _, _, _, _)
\* the loop of parse_classic (sit.c:597-705)
parse_classic_loop(base, file_count, cursor, done, dirs, entries, enc) ==
    With(parse_classic_turn(base, file_count, cursor, done, dirs, entries,
                            enc), LAMBDA t :
      IF t.done THEN t.res
      ELSE parse_classic_loop(base, file_count, t.st.cursor, t.st.done,
                              t.st.dirs, t.st.entries, t.st.enc))

\* parse_classic (sit.c:577-708) on the archive `base` found in the input
parse_classic(base) ==
    IF Len(base) < SIT_CLASSIC_HDR_SIZE
    THEN ParseErr("SIT classic: archive too small")
    ELSE parse_classic_loop(base, rd16be(base, 4), SIT_CLASSIC_HDR_SIZE, 0,
                            <<>>, <<>>, FALSE)

\* build_path (sit.c:241-262), the result shorter than its buffer
build_path(dir, name) ==
    IF dir # <<>> THEN dir \o <<47>> \o name ELSE name

\* sit.c:861-870, 909-918: the path of the folder recorded at parent_off
\* in the directory map, "" when there is none
ParentPath(dmap, parent_off) ==
    IF parent_off # 0 /\ \E i \in 1..Len(dmap) : dmap[i].offset = parent_off
    THEN dmap[MinOf({i \in 1..Len(dmap) : dmap[i].offset = parent_off})].path
    ELSE <<>>

\* d_raw_len == 0xFFFFFFFF (sit.c:854, 890), byte by byte
AllOnes32(buf, p) == \A k \in 0..3 : At(buf, p + k) = 255

\* the test of sit.c:902 for an encrypted entry
Sit5Encrypted(flags, d_raw_len, d_passlen) ==
    BitSet(flags, 32) /\ d_raw_len # 0 /\ d_passlen # 0

\* the loop of parse_sit5 (sit.c:755-960) has returned res; copied: the
\* length of the copy of header 1 made in its last turn, -1 if none was
Sit5Done(res, copied) == [done |-> TRUE, res |-> res, copied |-> copied]

\* the loop goes into its next turn
Sit5Again(cursor, remaining, dmap, entries, enc, copied) ==
    [done |-> FALSE, copied |-> copied,
     st |-> [cursor |-> cursor, remaining |-> remaining, dmap |-> dmap,
             entries |-> entries, enc |-> enc]]

\* one turn of the loop of parse_sit5 (sit.c:755-960).  The CRC is taken
\* over the h1_len bytes of the copy, of which the bytes 32 and 33 are zero
\* if they are among them
parse_sit5_turn(base, cursor, remaining, dmap, entries, enc) ==
    IF ~(remaining > 0 /\ cursor # 0)
    THEN Sit5Done(ParseOk(entries, FALSE, enc), -1)
    ELSE IF ~(cursor + 48 <= Len(base))
    THEN Sit5Done(ParseOk(entries, TRUE, enc), -1)
    ELSE IF ~memcmp0(base, cursor, <<165, 165, 165, 165>>)
    THEN Sit5Done(ParseErr("SIT5: invalid entry magic"), -1)
    ELSE IF At(base, cursor + 4) # 1
    THEN Sit5Done(ParseErr("SIT5: unsupported entry version"), -1)
    ELSE LET h1_len == rd16be(base, cursor + 6) IN
    IF cursor + h1_len > Len(base)
    THEN Sit5Done(ParseErr("SIT5: header1 extends past archive end"), -1)
    ELSE IF sit_crc([k \in 1..h1_len |->
                       IF k \in {33, 34} THEN 0 ELSE base[cursor + k]])
              # rd16be(base, cursor + 32)
    THEN Sit5Done(ParseErr("SIT5: header CRC mismatch"), h1_len)
    ELSE
      LET h2_off     == cursor + h1_len
          flags      == At(base, cursor + 9)
          parent_off == rd32be(base, cursor + 26)
          namelen    == rd16be(base, cursor + 30)
          cl         == MinOf({namelen, 255, Len(base) - cursor - 48})
          namebuf    == SubSeq(base, cursor + 49, cursor + 48 + cl)
      IN
      IF h2_off + 32 > Len(base)
      THEN Sit5Done(ParseErr("SIT5: header2 extends past archive end"), h1_len)
      ELSE
        LET rsrc_present == BitSet(rd16be(base, h2_off), 1)
            after_prefix == h2_off + 14 + 22
        IN
        IF rsrc_present /\ after_prefix + 14 > Len(base)
        THEN Sit5Done(ParseErr("SIT5: resource info past archive end"), h1_len)
        ELSE
          LET r_raw_len    == IF rsrc_present
                              THEN rd32be(base, after_prefix) ELSE 0
              r_packed_len == IF rsrc_present
                              THEN rd32be(base, after_prefix + 4) ELSE 0
              payload      == IF rsrc_present
                              THEN after_prefix + 14
                                     + At(base, after_prefix + 13)
                              ELSE after_prefix
              skipped      == AllOnes32(base, cursor + 34)
          IN
          IF BitSet(flags, 64)
          THEN IF skipped
               THEN Sit5Again(h2_off, remaining, dmap, entries, enc, h1_len)
               ELSE Sit5Again(payload,
                      remaining + rd16be(base, cursor + 46),
                      IF Len(dmap) < SIT5_MAX_DIRS
                      THEN Append(dmap,
                             [offset |-> cursor,
                              path |-> build_path(
                                         ParentPath(dmap, parent_off),
                                         namebuf)])
                      ELSE dmap,
                      entries, enc, h1_len)
          ELSE IF skipped
          THEN Sit5Again(h2_off, remaining, dmap, entries, enc, h1_len)
          ELSE
            LET d_raw_len    == rd32be(base, cursor + 34)
                d_packed_len == rd32be(base, cursor + 38)
                d_base       == payload
                                  + (IF rsrc_present THEN r_packed_len ELSE 0)
                has_rsrc     == rsrc_present /\ r_raw_len > 0
            IN
            IF Sit5Encrypted(flags, d_raw_len, At(base, cursor + 47))
            THEN Sit5Done(ParseErr("SIT5: encrypted entries are not supported"), h1_len)
            ELSE IF d_base + d_packed_len > Len(base)
            THEN Sit5Done(ParseErr("SIT5: data fork extends past archive end"), h1_len)
            ELSE Sit5Again(d_base + d_packed_len, remaining - 1,
                   dmap,
                   Append(entries,
                     SitEntry(build_path(ParentPath(dmap, parent_off),
                                         namebuf),
                              rd32be(base, h2_off + 4),
                              rd32be(base, h2_off + 8),
                              rd16be(base, h2_off + 12),
                              ForkInfo(At(base, cursor + 46) % 16, d_raw_len,
                                       rd16be(base, cursor + 42),
                                       SubSeq(base, d_base + 1,
                                              d_base + d_packed_len)),
                              IF has_rsrc
                              THEN ForkInfo(At(base, after_prefix + 12) % 16,
                                            r_raw_len,
                                            rd16be(base, after_prefix + 8),
                                            SubSeq(base, payload + 1,
                                                   payload + r_packed_len))
                              ELSE ForkInfo(0, 0, 0, <<>>),
                              has_rsrc)),
                   enc \/ BitSet(flags, 32), h1_len)

RECURSIVE parse_sit5_loop(_, _, _, _, _, _)
\* the loop of parse_sit5 (sit.c:755-960), for archives on which it ends
parse_sit5_loop(base, cursor, remaining, dmap, entries, enc) ==
    With(parse_sit5_turn(base, cursor, remaining, dmap, entries, enc),
         LAMBDA t :
      IF t.done THEN t.res
      ELSE parse_sit5_loop(base, t.st.cursor, t.st.remaining, t.st.dmap,
                           t.st.entries, t.st.enc))

\* parse_sit5 (sit.c:735-963) on the archive `base` found in the input
parse_sit5(base) ==
    IF Len(base) < SIT5_MIN_SIZE THEN ParseErr("SIT5: archive too small")
    ELSE parse_sit5_loop(base, rd32be(base, 94), rd16be(base, 92), <<>>,
                         <<>>, FALSE)

\* sit.c:980-981, 998-999: the entry has a fork that is not empty
SitListed(e) ==
    e.data_fork.raw_len > 0 \/ (e.has_rsrc /\ e.rsrc_fork.raw_len > 0)

RECURSIVE build_files_from(_, _, _, _, _, _, _)
\* the loop of build_file_list (sit.c:994-1040) from entry i on, `items`
\* the files filled so far and `forks` the verdicts of the fork decoders
\* run so far: [ok, items, heap, err, forks]
build_files_from(h, entries, i, items, forks, mem, o15) ==
    IF i > Len(entries)
    THEN [ok |-> TRUE, items |-> items, heap |-> h, err |-> NULL,
          forks |-> forks]
    ELSE LET ent == entries[i] IN
      IF ~SitListed(ent)
      THEN build_files_from(h, entries, i + 1, items, forks, mem, o15)
      ELSE
        With(IF ent.data_fork.raw_len > 0
             THEN decompress_fork(h, ent.data_fork, mem, o15)
             ELSE [buf |-> ZeroBuf, err |-> NULL, heap |-> h],
             LAMBDA d :
          LET fd == IF ent.data_fork.raw_len > 0 THEN Append(forks, d.v)
                    ELSE forks
          IN
          IF d.err # NULL
          THEN [ok |-> FALSE, items |-> <<>>, err |-> d.err, forks |-> fd,
                heap |-> FreeFiles(d.heap, items, 1)]
          ELSE
            With(IF ent.has_rsrc /\ ent.rsrc_fork.raw_len > 0
                 THEN decompress_fork(d.heap, ent.rsrc_fork, mem, o15)
                 ELSE [buf |-> ZeroBuf, err |-> NULL, heap |-> d.heap],
                 LAMBDA r :
              LET fr == IF ent.has_rsrc /\ ent.rsrc_fork.raw_len > 0
                        THEN Append(fd, r.v) ELSE fd
              IN
              IF r.err # NULL
              THEN [ok |-> FALSE, items |-> <<>>, err |-> r.err,
                    forks |-> fr,
                    heap |-> FreeFiles(peel_free(r.heap, d.buf), items, 1)]
              ELSE build_files_from(r.heap, entries, i + 1,
                     Append(items, [name |-> ent.name, data_fork |-> d.buf,
                                    resource_fork |-> r.buf]),
                     fr, mem, o15)))

\* build_file_list (sit.c:970-1043): [list, err, heap, forks].  `c0`:
\* calloc(0, ..) returns NULL when no entry has a fork that is not empty.
build_file_list(h, entries, mem, c0, o15) ==
    LET file_count == Cardinality({i \in 1..Len(entries) :
                                     SitListed(entries[i])})
    IN
    IF Len(entries) = 0
    THEN [list |-> ZeroList, err |-> NULL, heap |-> h, forks |-> <<>>]
    ELSE IF file_count = 0 /\ c0
    THEN With(make_err(h, mem), LAMBDA m :
           [list |-> ZeroList, err |-> m.err, heap |-> m.heap,
            forks |-> <<>>])
    ELSE With(build_files_from(Alloc(h), entries, 1, <<>>, <<>>, mem, o15),
              LAMBDA r :
           IF r.ok
           THEN [list |-> [files |-> NewId(h), count |-> file_count,
                           items |-> r.items],
                 err |-> NULL, heap |-> r.heap, forks |-> r.forks]
           ELSE [list |-> ZeroList, err |-> r.err,
                 heap |-> Free(r.heap, NewId(h)), forks |-> r.forks])

\* peel_sit (sit.c:1063-1093): [list, err, heap, parse, forks], parse the
\* parser's verdict
peel_sit(h, src, mem, c0, o15) ==
    LET classic_off == find_classic_magic(src)
        sit5_off    == find_sit5_magic(src)
        Base(off)   == SubSeq(src, off + 1, Len(src))
    IN
    With(IF classic_off >= 0 /\ (sit5_off < 0 \/ classic_off <= sit5_off)
         THEN parse_classic(Base(classic_off))
         ELSE IF sit5_off >= 0 THEN parse_sit5(Base(sit5_off))
         ELSE ParseErr("SIT: no valid StuffIt signature found"),
         LAMBDA p :
      IF ~p.ok
      THEN With(make_err(h, mem), LAMBDA m :
             [list |-> ZeroList, err |-> m.err, heap |-> m.heap,
              parse |-> p, forks |-> <<>>])
      ELSE With(build_file_list(h, p.entries, mem, c0, o15), LAMBDA b :
             [list |-> b.list, err |-> b.err, heap |-> b.heap,
              parse |-> p, forks |-> b.forks]))

\* =========================================================================
\* StuffIt archives given to peel_sit
\* =========================================================================

Zeros(n) == [k \in 1..n |-> 0]

\* one fork as an archive stores it: [raw_len, crc, data]
StoredFork(raw_len, crc, data) ==
    [raw_len |-> raw_len, crc |-> crc, data |-> data]

NoStoredFork == StoredFork(0, 0, <<>>)

\* a classic entry (sit.md 4.3): the 112-byte header with the two method
\* bytes, the name, type 'TEXT', creator 'ttxt' and the lengths and CRCs of
\* the forks, then the resource fork, then the data fork
ClassicEntryBytes(rm, dm, name, r, d) ==
    <<rm, dm, Len(name)>> \o name \o Zeros(63 - Len(name))
      \o <<84, 69, 88, 84>> \o <<116, 116, 120, 116>> \o Zeros(10)
      \o wr32be(r.raw_len) \o wr32be(d.raw_len)
      \o wr32be(Len(r.data)) \o wr32be(Len(d.data))
      \o wr16be(r.crc) \o wr16be(d.crc) \o Zeros(8)
      \o r.data \o d.data

\* a classic archive (sit.md 4.2): 'SIT!', the entry count, the total
\* length, 'rLau', the version, 7 reserved bytes, then the entries
ClassicArchive(count, body) ==
    <<83, 73, 84, 33>> \o wr16be(count) \o wr32be(22 + Len(body))
      \o <<114, 76, 97, 117>> \o <<1>> \o Zeros(7) \o body

\* header 1 of a SIT5 entry (sit.md 5.3) before its CRC is filled in
Sit5Header1(flags, name, d, algo, passlen) ==
    <<165, 165, 165, 165, 1, 0>> \o wr16be(48 + Len(name)) \o <<0, flags>>
      \o Zeros(20) \o wr16be(Len(name)) \o <<0, 0>>
      \o wr32be(d.raw_len) \o wr32be(Len(d.data)) \o wr16be(d.crc)
      \o <<0, 0, algo, passlen>> \o name

\* a SIT5 file entry without resource fork: header 1 with its CRC at 32,
\* header 2 (type 'TEXT', creator 'ttxt'), then the data fork
Sit5EntryBytes(flags, name, d, algo, passlen) ==
    LET h1 == Sit5Header1(flags, name, d, algo, passlen)
        c  == wr16be(sit_crc(h1))
    IN  [h1 EXCEPT ![33] = c[1], ![34] = c[2]]
          \o Zeros(4) \o <<84, 69, 88, 84>> \o <<116, 116, 120, 116>>
          \o Zeros(24) \o d.data

\* a SIT5 archive (sit.md 5.2): the 80-byte signature line, the entry count
\* at 92, the offset of the first entry (100) at 94
Sit5Archive(count, body) ==
    <<83, 116, 117, 102, 102, 73, 116, 32, 40, 99, 41, 49, 57, 57, 55, 45,
      49, 57, 57, 56,
      32, 65, 108, 97, 100, 100, 105, 110, 32, 83, 121, 115, 116, 101, 109,
      115, 44, 32, 73, 110, 99, 46, 44, 32, 104, 116, 116, 112, 58, 47, 47,
      119, 119, 119, 46, 97, 108, 97, 100, 100, 105, 110, 115, 121, 115, 46,
      99, 111, 109, 47, 83, 116, 117, 102, 102, 73, 116, 47, 13, 10>>
      \o Zeros(12) \o wr16be(count) \o wr32be(100) \o Zeros(2) \o body

\* a compressed stream, the length its entry declares, and the bytes whose
\* CRC a matching entry stores
SitStream(method, data, raw_len, plain) ==
    [method |-> method, data |-> data, raw_len |-> raw_len, plain |-> plain]

\* a method-13 stream in dynamic mode: the shared literal tree with 'A' and
\* the length-3 match at one bit each, two distances at one bit each; then
\* 'A' and a match of length 3 at distance 1
DynamicStream ==
    <<8, 132, 16, 66, 8, 33, 132, 16, 66, 8, 33, 132, 16, 66, 8, 33,
         132, 16, 66, 8, 33, 132, 16, 66, 8, 33, 132, 16, 66, 8, 33, 132,
         16, 66, 8, 33, 132, 16, 66, 8, 33, 4, 187, 132, 16, 66, 8, 33,
         132, 16, 66, 8, 33, 132, 16, 66, 8, 33, 132, 16, 66, 8, 33, 132,
         16, 66, 8, 33, 132, 16, 66, 8, 33, 132, 16, 66, 8, 33, 132, 16,
         66, 8, 33, 132, 16, 66, 8, 33, 132, 16, 66, 8, 33, 132, 16, 66, 8,
         33, 132, 16, 66, 8, 33, 132, 16, 66, 8, 33, 132, 16, 66, 8, 33,
         132, 16, 66, 8, 33, 132, 16, 66, 8, 33, 132, 16, 66, 8, 33, 132,
         16, 66, 8, 33, 132, 16, 66, 8, 33, 132, 16, 66, 8, 33, 132, 16,
         66, 8, 33, 132, 16, 66, 8, 33, 132, 16, 66, 8, 33, 132, 16, 66, 8,
         118, 9, 33, 132, 16, 66, 8, 33, 132, 16, 66, 8, 33, 132, 16, 66,
         8, 33, 132, 16, 66, 8, 33, 132, 16, 66, 8, 33, 132, 16, 66, 8, 33,
         132, 16, 66, 8, 33, 132, 16, 66, 176, 139, 93, 66, 8, 33, 132, 16,
         1>>

\* the streams entries are made of
SitStreams ==
    << \* stored: "AB"; with one byte where two are declared
       SitStream(0, <<65, 66>>, 2, <<65, 66>>),
       SitStream(0, <<65>>, 2, <<65>>),
       \* RLE90: 'A' repeated to "AAA"; a literal 0x90; 'A' and nothing more
       \* where two bytes are declared; 'A' and a marker without its count
       SitStream(1, <<65, 144, 3>>, 3, <<65, 65, 65>>),
       SitStream(1, <<65, 144, 0>>, 2, <<65, 144>>),
       SitStream(1, <<65>>, 2, <<65>>),
       SitStream(1, <<65, 144>>, 3, <<65>>),
       \* LZW, 9-bit codes: 65 66; 65 257 (KwKwK); 65 300 (no such entry);
       \* 65 and nothing more where two bytes are declared
       SitStream(2, <<65, 132, 0>>, 2, <<65, 66>>),
       SitStream(2, <<65, 2, 2>>, 3, <<65, 65, 65>>),
       SitStream(2, <<65, 88, 2>>, 3, <<65, 65, 65>>),
       SitStream(2, <<65>>, 2, <<65>>),
       \* method 13, predefined set 1: 'A' and a match of 3 at distance 1;
       \* "AB" and a match of 4 at distance 2; the header byte and nothing
       \* more; the header byte and 'A' where two bytes are declared;
       \* symbol 320; a header byte that names set 6
       SitStream(13, <<16, 9, 206, 3>>, 4, <<65, 65, 65, 65>>),
       SitStream(13, <<16, 9, 173, 244, 7>>, 6, <<65, 66, 65, 66, 65, 66>>),
       SitStream(13, <<16>>, 1, <<0>>),
       SitStream(13, <<16, 9>>, 2, <<65, 0>>),
       SitStream(13, <<16, 22>>, 1, <<>>),
       SitStream(13, <<96>>, 1, <<>>),
       SitStream(13, DynamicStream, 4, <<65, 65, 65, 65>>),
       \* method 15, and a method that is not implemented
       SitStream(15, <<0>>, 2, <<65, 65>>),
       SitStream(5, <<1>>, 1, <<1>>) >>

\* the fork of stream f as an entry stores it, with the CRC of its bytes
\* or, when crcOk is false, a CRC that differs in its last bit
StoredStream(f, crcOk) ==
    LET x == SitStreams[f]
        c == sit_crc(x.plain)
    IN  StoredFork(x.raw_len, IF crcOk THEN c ELSE Xor(c, 1), x.data)

\* what peel_sit15 can answer
Sit15Outcomes == {[ok |-> FALSE, fill |-> 0], [ok |-> TRUE, fill |-> 65]}

\* a classic archive of one entry named "a": stream f as its data or
\* resource fork, the encryption flag (bit 4) in that fork's method byte
OneEntryClassic(f, crcOk, enc, side) ==
    LET m == SitStreams[f].method + (IF enc THEN 16 ELSE 0)
        k == StoredStream(f, crcOk)
    IN  ClassicArchive(1,
          IF side = "data" THEN ClassicEntryBytes(0, m, <<97>>, NoStoredFork, k)
          ELSE ClassicEntryBytes(m, 0, <<97>>, k, NoStoredFork))

\* a classic archive that declares `count` entries and holds two, "a" with
\* stream f1 and "b" with stream f2, cut to its first `len` bytes
TwoEntryClassic(count, f1, ok1, f2, ok2) ==
    ClassicArchive(count,
        ClassicEntryBytes(0, SitStreams[f1].method, <<97>>, NoStoredFork,
                          StoredStream(f1, ok1))
     \o ClassicEntryBytes(0, SitStreams[f2].method, <<98>>, NoStoredFork,
                          StoredStream(f2, ok2)))

\* a SIT5 archive that declares `count` entries and holds two stored ones:
\* "a" with the given flags byte and password length and raw_len bytes of
\* data, and "b"
TwoEntrySit5(count, flags, passlen, raw_len) ==
    LET plain == SubSeq(<<65, 66>>, 1, raw_len) IN
    Sit5Archive(count,
        Sit5EntryBytes(flags, <<97>>,
                       StoredFork(raw_len, sit_crc(plain), plain), 0, passlen)
     \o Sit5EntryBytes(0, <<98>>, StoredStream(1, TRUE), 0, 0))

\* the lengths an archive is cut to: a few ends inside and between its
\* parts, and its whole length
Cuts(whole, ends) == {n \in ends : n < whole} \cup {whole}

\* =========================================================================
\* Specification of peel_sit on archives given byte by byte
\* =========================================================================

SitGiven(kind, count, f, crcOk, enc, len, whole) ==
    [kind |-> kind, count |-> count, f |-> f, crcOk |-> crcOk, enc |-> enc,
     len |-> len, whole |-> whole]

SitInit ==
    /\ \/ \E f \in 1..Len(SitStreams) : \E crcOk, enc \in BOOLEAN :
            \E side \in {"data", "rsrc"} :
              LET a == OneEntryClassic(f, crcOk, enc, side) IN
              /\ input = Bytes(a)
              /\ hist = [HistInit EXCEPT
                           !.given = SitGiven("classic", 1, <<f>>, <<crcOk>>,
                                              enc, Len(a), Len(a))]
       \/ \E count \in 2..3 : \E f1 \in {1, 18} : \E f2 \in {1, 5, 9, 11} :
            \E ok1, ok2 \in BOOLEAN :
              LET a == TwoEntryClassic(count, f1, ok1, f2, ok2) IN
              \E n \in Cuts(Len(a), {22 + 114, 22 + 114 + 50,
                                     22 + 114 + 112}) :
                /\ input = Bytes(SubSeq(a, 1, n))
                /\ hist = [HistInit EXCEPT
                             !.given = SitGiven("classic", count, <<f1, f2>>,
                                                <<ok1, ok2>>, FALSE, n,
                                                Len(a))]
       \/ \E count \in 1..3 : \E flags \in {0, 32} : \E passlen \in 0..1 :
            \E raw_len \in {0, 2} :
              LET a  == TwoEntrySit5(count, flags, passlen, raw_len)
                  e1 == 100 + 49 + 36 + raw_len
              IN
              \E n \in Cuts(Len(a), {e1, e1 + 30, e1 + 48, e1 + 60}) :
                /\ input = Bytes(SubSeq(a, 1, n))
                /\ hist = [HistInit EXCEPT
                             !.given = SitGiven("sit5", count,
                                                <<flags, passlen, raw_len>>,
                                                <<TRUE, TRUE>>,
                                                flags = 32, n, Len(a))]
    /\ stack = <<>>
    /\ heap = <<>>
    /\ ret = NoRet
    /\ phase = "idle"

\* the caller's peel_sit(src, len, &err) (sit.c:1063-1093) in a world where
\* make_err can allocate or not (mem), calloc(0, ..) returns NULL or not
\* (c0) and peel_sit15 answers o15
SitPeel ==
    /\ phase = "idle"
    /\ \E mem, c0 \in BOOLEAN : \E o15 \in Sit15Outcomes :
         With(peel_sit(heap, input.content[1], mem, c0, o15), LAMBDA r :
           /\ heap' = r.heap
           /\ ret' = RetVal(r.list, r.err)
           /\ hist' = [hist EXCEPT
                         !.sit = [mem |-> mem, c0 |-> c0, o15 |-> o15,
                                  parsed |-> r.parse.ok,
                                  msg |-> r.parse.msg,
                                  cut |-> r.parse.cut,
                                  enc |-> r.parse.enc,
                                  entries |-> Len(r.parse.entries),
                                  forks |-> r.forks]])
    /\ phase' = "returned"
    /\ UNCHANGED <<input, stack>>

SitNext ==
    \/ SitPeel
    \/ PeelFileListFree
    \/ PeelErrFree

SitSpec == SitInit /\ [][SitNext]_vars

\* =========================================================================
\* Byte level: Compact Pro fork streams, LZH and RLE (bin.c)
\* =========================================================================

\* bin.c:337-346
CP_WIN_SIZE == 8192
CP_BLOCK_COST == 131056
CP_LIT_COUNT == 256
CP_LEN_COUNT == 64
CP_OFF_COUNT == 128
CP_MAX_CODELEN == 15
CP_HUFF_POOL_MAX == 2048
\* sizeof(chunk) in cp_decompress_fork (bin.c:1099)
CP_CHUNK == 8192

\* cp_bits_init (bin.c:375-379).  The reader over the bytes src of its
\* memory source (cp_memsrc_next, bin.c:739-744) is held as pos, the number
\* of bits taken from the accumulator so far, and bytes_read: the
\* accumulator holds the bits pos .. 8 * bytes_read - 1 of src (fill is
\* their number), most significant first.
cp_bits_init == [pos |-> 0, bytes_read |-> 0, eof |-> FALSE]

cp_bits_fill(b) == 8 * b.bytes_read - b.pos

\* cp_bits_refill (bin.c:384-395): bytes are pulled until `need` bits are
\* held or the source has no more
cp_bits_refill(src, b, need) ==
    IF cp_bits_fill(b) >= need \/ b.eof THEN b
    ELSE LET want == (b.pos + need + 7) \div 8 IN
         IF want > Len(src)
         THEN [b EXCEPT !.bytes_read = Len(src), !.eof = TRUE]
         ELSE [b EXCEPT !.bytes_read = want]

\* bit p of src, most significant bit of a byte first, 0 beyond the end
cp_bit(src, p) ==
    IF p \div 8 < Len(src) THEN (At(src, p \div 8) \div (2 ^ (7 - (p % 8)))) % 2
    ELSE 0

RECURSIVE cp_bits_top(_, _, _, _)
\* acc >> (32 - n) (bin.c:404, 409) of an accumulator that holds the bits
\* from .. upto - 1 of src and zeros below them
cp_bits_top(src, from, upto, n) ==
    IF n = 0 THEN 0
    ELSE 2 * cp_bits_top(src, from, upto, n - 1)
           + (IF from + n - 1 < upto THEN cp_bit(src, from + n - 1) ELSE 0)

\* cp_bits_get (bin.c:400-414): [v, b]
cp_bits_get(src, b, n) ==
    IF n <= 0 THEN [v |-> 0, b |-> b]
    ELSE LET r == cp_bits_refill(src, b, n) IN
         IF cp_bits_fill(r) < n
         THEN [v |-> cp_bits_top(src, r.pos, 8 * r.bytes_read, n),
               b |-> [r EXCEPT !.pos = 8 * r.bytes_read]]
         ELSE [v |-> cp_bits_top(src, r.pos, 8 * r.bytes_read, n),
               b |-> [r EXCEPT !.pos = @ + n]]

\* cp_bits_avail (bin.c:419-422): [ok, b]
cp_bits_avail(src, b, n) ==
    LET r == cp_bits_refill(src, b, n) IN
    [ok |-> cp_bits_fill(r) >= n, b |-> r]

\* the reader after n more bits were taken by calls that found them
cp_bits_taken(b, n) ==
    [b EXCEPT !.pos = @ + n,
              !.bytes_read = Max(@, (b.pos + n + 7) \div 8)]

\* cp_bits_align (bin.c:425-431)
cp_bits_align(b) == [b EXCEPT !.pos = @ + (cp_bits_fill(b) % 8)]

\* cp_bits_skip (bin.c:436-442) of n <= 25 bits: one cp_bits_get
cp_bits_skip(src, b, n) == cp_bits_get(src, b, n).b

\* cp_htree_alloc (bin.c:471-478): the pool is the sequence of its nodes in
\* use; [idx, pool], idx = -1 when the pool is full
cp_htree_alloc(pool) ==
    IF Len(pool) >= CP_HUFF_POOL_MAX THEN [idx |-> -1, pool |-> pool]
    ELSE [idx |-> Len(pool),
          pool |-> Append(pool, [child |-> <<-1, -1>>, sym |-> -1])]

RECURSIVE cp_htree_insert(_, _, _, _, _)
\* the walk of cp_htree_build for one code (bin.c:497-508) from `node`
\* with bit bp next: [ok, pool]
cp_htree_insert(pool, node, code, bp, sym) ==
    IF bp < 0 THEN [ok |-> TRUE, pool |-> [pool EXCEPT ![node + 1].sym = sym]]
    ELSE LET bit == (code \div (2 ^ bp)) % 2 IN
         IF At(pool, node).child[bit + 1] < 0
         THEN LET a == cp_htree_alloc(pool) IN
              IF a.idx < 0 THEN [ok |-> FALSE, pool |-> pool]
              ELSE cp_htree_insert(
                     [a.pool EXCEPT ![node + 1].child[bit + 1] = a.idx],
                     a.idx, code, bp - 1, sym)
         ELSE cp_htree_insert(pool, At(pool, node).child[bit + 1], code,
                              bp - 1, sym)

RECURSIVE cp_htree_syms(_, _, _, _)
\* the inner loop of cp_htree_build (bin.c:494-510) for one code length, on
\* st = [ok, pool, code]: the symbols of that length, in ascending order
cp_htree_syms(st, code_lens, syms, len) ==
    IF syms = {} \/ ~st.ok THEN st
    ELSE LET sym == MinOf(syms)
             r   == cp_htree_insert(st.pool, 0, st.code, len - 1, sym)
         IN  cp_htree_syms([ok |-> r.ok, pool |-> r.pool,
                            code |-> st.code + 1],
                           code_lens, syms \ {sym}, len)

RECURSIVE cp_htree_lens(_, _, _, _)
\* the outer loop of cp_htree_build (bin.c:493-512)
cp_htree_lens(st, code_lens, sym_count, len) ==
    IF len > CP_MAX_CODELEN \/ ~st.ok THEN st
    ELSE With(cp_htree_syms(st, code_lens,
                {s \in 0..(sym_count - 1) : At(code_lens, s) = len}, len),
              LAMBDA r :
           cp_htree_lens([r EXCEPT !.code = @ * 2], code_lens, sym_count,
                         len + 1))

\* cp_htree_build (bin.c:487-515): [ok, pool]; the root is node 0
cp_htree_build(code_lens, sym_count) ==
    With(cp_htree_lens([ok |-> TRUE, pool |-> cp_htree_alloc(<<>>).pool,
                        code |-> 0], code_lens, sym_count, 1),
         LAMBDA r : [ok |-> r.ok, pool |-> r.pool])

RECURSIVE cp_htree_decode(_, _, _, _)
\* cp_htree_decode (bin.c:521-533) from `node`: [sym, b], sym = -1 on
\* error or end of input
cp_htree_decode(pool, src, b, node) ==
    IF At(pool, node).sym >= 0 THEN [sym |-> At(pool, node).sym, b |-> b]
    ELSE LET a == cp_bits_avail(src, b, 1) IN
         IF ~a.ok THEN [sym |-> -1, b |-> a.b]
         ELSE LET g    == cp_bits_get(src, a.b, 1)
                  next == At(pool, node).child[g.v + 1]
              IN  IF next < 0 THEN [sym |-> -1, b |-> g.b]
                  ELSE cp_htree_decode(pool, src, g.b, next)

\* cp_lzh_init (bin.c:563-567); hist is the sequence of the bytes the
\* decoder has emitted: wpos is its length and, as long as no more than
\* CP_WIN_SIZE bytes were emitted, win[i] is hist[i + 1] for i < wpos and 0
\* (the memset) elsewhere.  matches: the matches decoded so far (history).
\* fault: why the decoder returned 0, the first reason other than "end" if
\* there is one, for it can be called again (history): "end" when
\* the input had no more bits, "table" for a table of more bytes than its
\* symbols need (bin.c:575), "node" for a code that leads to no node
\* (bin.c:530), "mlen0" for the match length symbol 0 (bin.c:689).
cp_lzh_init ==
    [bits |-> cp_bits_init, lit_tree |-> <<>>, len_tree |-> <<>>,
     off_tree |-> <<>>, tables_ok |-> FALSE, hist |-> <<>>,
     blk_cost |-> 0, blk_byte_start |-> 0, match_src |-> 0, match_rem |-> 0,
     matches |-> <<>>, fault |-> "none"]

\* cp_lzh_read_table (bin.c:572-585): [ok, lens, b, big], big when it is the
\* size test that failed
cp_lzh_read_table(src, b, sym_count) ==
    LET a == cp_bits_avail(src, b, 8) IN
    IF ~a.ok THEN [ok |-> FALSE, lens |-> <<>>, b |-> a.b, big |-> FALSE]
    ELSE
    LET g      == cp_bits_get(src, a.b, 8)
        nbytes == g.v
        \* the bytes of the table that the source still holds
        have   == MinOf({nbytes, (8 * Len(src) - g.b.pos) \div 8})
        byte(i) == cp_bits_top(src, g.b.pos + 8 * i, 8 * Len(src), 8)
    IN
    IF nbytes * 2 > sym_count
    THEN [ok |-> FALSE, lens |-> <<>>, b |-> g.b, big |-> TRUE]
    ELSE IF have < nbytes
    THEN [ok |-> FALSE, lens |-> <<>>, big |-> FALSE,
          b |-> cp_bits_avail(src, cp_bits_taken(g.b, 8 * have), 8).b]
    ELSE [ok |-> TRUE, big |-> FALSE,
          lens |-> [k \in 1..sym_count |->
                      IF (k - 1) \div 2 >= nbytes THEN 0
                      ELSE IF (k - 1) % 2 = 0 THEN byte((k - 1) \div 2) \div 16
                      ELSE byte((k - 1) \div 2) % 16],
          b |-> cp_bits_taken(g.b, 8 * nbytes)]

\* cp_lzh_build_tables (bin.c:592-608): the decoder after the call, whether
\* it succeeded and, if not, whether a table was too big
cp_lzh_build_tables(src, lz) ==
    With(cp_lzh_read_table(src, lz.bits, CP_LIT_COUNT), LAMBDA t1 :
      IF ~t1.ok THEN [ok |-> FALSE, big |-> t1.big,
                      lz |-> [lz EXCEPT !.bits = t1.b]]
      ELSE With(cp_htree_build(t1.lens, CP_LIT_COUNT), LAMBDA h1 :
      IF ~h1.ok THEN [ok |-> FALSE, big |-> FALSE,
                      lz |-> [lz EXCEPT !.bits = t1.b]]
      ELSE With(cp_lzh_read_table(src, t1.b, CP_LEN_COUNT), LAMBDA t2 :
      IF ~t2.ok
      THEN [ok |-> FALSE, big |-> t2.big,
            lz |-> [lz EXCEPT !.bits = t2.b, !.lit_tree = h1.pool]]
      ELSE With(cp_htree_build(t2.lens, CP_LEN_COUNT), LAMBDA h2 :
      IF ~h2.ok
      THEN [ok |-> FALSE, big |-> FALSE,
            lz |-> [lz EXCEPT !.bits = t2.b, !.lit_tree = h1.pool]]
      ELSE With(cp_lzh_read_table(src, t2.b, CP_OFF_COUNT), LAMBDA t3 :
      IF ~t3.ok
      THEN [ok |-> FALSE, big |-> t3.big,
            lz |-> [lz EXCEPT !.bits = t3.b, !.lit_tree = h1.pool,
                              !.len_tree = h2.pool]]
      ELSE With(cp_htree_build(t3.lens, CP_OFF_COUNT), LAMBDA h3 :
      IF ~h3.ok
      THEN [ok |-> FALSE, big |-> FALSE,
            lz |-> [lz EXCEPT !.bits = t3.b, !.lit_tree = h1.pool,
                              !.len_tree = h2.pool]]
      ELSE [ok |-> TRUE, big |-> FALSE,
            lz |-> [lz EXCEPT !.bits = t3.b, !.lit_tree = h1.pool,
                              !.len_tree = h2.pool, !.off_tree = h3.pool,
                              !.tables_ok = TRUE, !.blk_cost = 0,
                              !.blk_byte_start = t3.b.bytes_read]]))))))

\* cp_lzh_flush_block (bin.c:615-623)
cp_lzh_flush_block(src, lz) ==
    LET al       == cp_bits_align(lz.bits)
        consumed == al.bytes_read - lz.blk_byte_start
    IN  [lz EXCEPT !.bits = cp_bits_skip(src, al,
                              IF consumed % 2 = 1 THEN 24 ELSE 16),
                   !.tables_ok = FALSE]

\* lz->win[idx & CP_WIN_MASK] (bin.c:638, 697)
cp_lzh_win(emitted, idx) ==
    IF idx % CP_WIN_SIZE < Len(emitted) THEN At(emitted, idx % CP_WIN_SIZE)
    ELSE 0

\* cp_lzh_next (bin.c:635-710), the turn of its loop that follows the
\* block boundary test: [r, out, lz]
cp_lzh_token(src, lz0) ==
    With(IF lz0.tables_ok THEN [ok |-> TRUE, big |-> FALSE, lz |-> lz0]
         ELSE LET a == cp_bits_avail(src, lz0.bits, 8) IN
              IF ~a.ok THEN [ok |-> FALSE, big |-> FALSE,
                             lz |-> [lz0 EXCEPT !.bits = a.b]]
              ELSE cp_lzh_build_tables(src, [lz0 EXCEPT !.bits = a.b]),
         LAMBDA t :
      LET lz == t.lz
          Eof(b, why) == [r |-> 0, out |-> 0,
                          lz |-> [lz EXCEPT !.bits = b,
                                            !.fault = IF @ \in {"none", "end"}
                                                      THEN why ELSE @]]
          \* cp_htree_decode returned -1: no bit left, or no such node
          NoSym(b) == Eof(b, IF b.eof THEN "end" ELSE "node")
      IN
      IF ~t.ok THEN Eof(lz.bits, IF t.big THEN "table" ELSE "end")
      ELSE
      LET a == cp_bits_avail(src, lz.bits, 1) IN
      IF ~a.ok THEN Eof(a.b, "end")
      ELSE
      LET flag == cp_bits_get(src, a.b, 1) IN
      IF flag.v = 1
      THEN With(cp_htree_decode(lz.lit_tree, src, flag.b, 0), LAMBDA c :
             IF c.sym < 0 THEN NoSym(c.b)
             ELSE [r |-> 1, out |-> c.sym % 256,
                   lz |-> [lz EXCEPT !.bits = c.b,
                                     !.hist = Append(@, c.sym % 256),
                                     !.blk_cost = @ + 2]])
      ELSE With(cp_htree_decode(lz.len_tree, src, flag.b, 0), LAMBDA m :
             IF m.sym < 0 THEN NoSym(m.b)
             ELSE With(cp_htree_decode(lz.off_tree, src, m.b, 0), LAMBDA o :
             IF o.sym < 0 THEN NoSym(o.b)
             ELSE
             LET a6 == cp_bits_avail(src, o.b, 6) IN
             IF ~a6.ok THEN Eof(a6.b, "end")
             ELSE
             LET lower6 == cp_bits_get(src, a6.b, 6)
                 offset == o.sym * 64 + lower6.v
                 mlen   == m.sym
                 wpos   == Len(lz.hist)
                 first  == cp_lzh_win(lz.hist, wpos - offset)
             IN
             IF mlen = 0 THEN Eof(lower6.b, "mlen0")
             ELSE [r |-> 1, out |-> first,
                   lz |-> [lz EXCEPT
                             !.bits = lower6.b,
                             !.blk_cost = @ + 3,
                             !.hist = Append(@, first),
                             !.match_src = IF mlen > 1 THEN wpos - offset + 1
                                           ELSE @,
                             !.match_rem = IF mlen > 1 THEN mlen - 1 ELSE @,
                             !.matches = Append(@, [at |-> wpos,
                                                    len |-> mlen,
                                                    offset |-> offset])]])))

\* cp_lzh_next (bin.c:635-710): [r, out, lz]; r = 1 with the byte out, or
\* r = 0 at the end of the stream
cp_lzh_next(src, lz) ==
    IF lz.match_rem > 0
    THEN LET b == cp_lzh_win(lz.hist, lz.match_src) IN
         [r |-> 1, out |-> b,
          lz |-> [lz EXCEPT !.hist = Append(@, b), !.match_src = @ + 1,
                            !.match_rem = @ - 1]]
    ELSE IF lz.tables_ok /\ lz.blk_cost >= CP_BLOCK_COST
    THEN cp_lzh_token(src, cp_lzh_flush_block(src, lz))
    ELSE cp_lzh_token(src, lz)

\* cp_fork_init_rle / cp_fork_init_lzh (bin.c:871-893): the stream over the
\* compressed bytes src; memsrc is the position of the memory source, which
\* the bit reader of lzh advances when use_lzh is set
cp_fork_init(use_lzh, uncomp_len) ==
    [use_lzh |-> use_lzh, lzh |-> cp_lzh_init, memsrc |-> 0,
     rle |-> [prev_byte |-> 0, run_left |-> 0, escape_pending |-> FALSE,
              cut |-> FALSE],
     remain |-> uncomp_len, done |-> uncomp_len = 0]

\* r->src(r->src_ctx, &v): cp_memsrc_next (bin.c:739-744) or cp_lzh_adapter
\* (bin.c:866-868); [ok, v, f]
cp_rle_src(src, f) ==
    IF f.use_lzh
    THEN With(cp_lzh_next(src, f.lzh), LAMBDA n :
           [ok |-> n.r = 1, v |-> n.out, f |-> [f EXCEPT !.lzh = n.lz]])
    ELSE IF f.memsrc >= Len(src) THEN [ok |-> FALSE, v |-> 0, f |-> f]
    ELSE [ok |-> TRUE, v |-> At(src, f.memsrc),
          f |-> [f EXCEPT !.memsrc = @ + 1]]

\* the copies a run leaves pending (bin.c:823)
cp_rle_run_left(count) == IF count >= 2 THEN count - 2 ELSE 0

RECURSIVE cp_rle_read(_, _, _, _)
\* cp_rle_read (bin.c:780-846) on the stream f, dst the bytes written so
\* far: [f, dst].  rle.cut (history): the source ended after the escape byte
\* or after its operand 0x82 (bin.c:811, 818).
cp_rle_read(src, f, dst, max) ==
    IF ~(Len(dst) < max) THEN [f |-> f, dst |-> dst]
    ELSE IF f.rle.run_left > 0
    THEN cp_rle_read(src, [f EXCEPT !.rle.run_left = @ - 1],
                     Append(dst, f.rle.prev_byte % 256), max)
    ELSE
    With(IF f.rle.escape_pending
         THEN [ok |-> TRUE, v |-> 129,
               f |-> [f EXCEPT !.rle.escape_pending = FALSE]]
         ELSE cp_rle_src(src, f),
         LAMBDA b :
      IF ~b.ok THEN [f |-> b.f, dst |-> dst]
      ELSE IF b.v # 129
      THEN cp_rle_read(src, [b.f EXCEPT !.rle.prev_byte = b.v],
                       Append(dst, b.v), max)
      ELSE With(cp_rle_src(src, b.f), LAMBDA next :
        IF ~next.ok THEN [f |-> [next.f EXCEPT !.rle.cut = TRUE], dst |-> dst]
        ELSE IF next.v = 130
        THEN With(cp_rle_src(src, next.f), LAMBDA count :
               IF ~count.ok
               THEN [f |-> [count.f EXCEPT !.rle.cut = TRUE], dst |-> dst]
               ELSE IF count.v = 0
               THEN cp_rle_read(src,
                      [count.f EXCEPT !.rle.prev_byte = 130,
                                      !.rle.run_left = 1],
                      Append(dst, 129), max)
               ELSE cp_rle_read(src,
                      [count.f EXCEPT !.rle.run_left =
                                         cp_rle_run_left(count.v)],
                      Append(dst, count.f.rle.prev_byte % 256), max))
        ELSE IF next.v = 129
        THEN cp_rle_read(src,
               [next.f EXCEPT !.rle.prev_byte = 129,
                              !.rle.escape_pending = TRUE],
               Append(dst, 129), max)
        ELSE cp_rle_read(src,
               [next.f EXCEPT !.rle.prev_byte = next.v, !.rle.run_left = 1],
               Append(dst, 129), max)))

\* cp_fork_read (bin.c:896-905): [n, f, dst], dst the bytes put in the
\* caller's chunk
cp_fork_read(src, f, max) ==
    IF f.done \/ f.remain = 0 THEN [n |-> 0, f |-> f, dst |-> <<>>]
    ELSE With(cp_rle_read(src, f, <<>>, MinOf({max, f.remain})), LAMBDA r :
           LET n == Len(r.dst) IN
           IF n <= 0 THEN [n |-> n, f |-> [r.f EXCEPT !.done = TRUE],
                           dst |-> r.dst]
           ELSE [n |-> n, dst |-> r.dst,
                 f |-> [r.f EXCEPT !.remain = @ - n,
                                   !.done = (f.remain - n = 0)]])

\* =========================================================================
\* Compact Pro forks given to cp_decompress_fork
\* =========================================================================

\* the bytes of the RLE test streams (cpt.md 10.1, 10.2): two letters, the
\* escape byte and its operand 0x82, and counts
RleAlphabet == {65, 129, 130, 0, 2, 3, 5}
\* longest RLE test stream
MaxRleLen == 4
\* declared uncompressed lengths of the test forks
CpLens == {0, 2, 8}

RECURSIVE SeqsUpTo(_, _)
\* the sequences over S of length at most n
SeqsUpTo(S, n) ==
    IF n = 0 THEN {<<>>}
    ELSE LET shorter == SeqsUpTo(S, n - 1) IN
         shorter \cup {Append(s, x) : s \in shorter, x \in S}

\* the three tables of an LZH block (cpt.md 6.4.1): literals 0x41 and 0x42
\* with the codes 0 and 1, match lengths 3 and 4 with the codes 0 and 1,
\* offset symbol 0 with the code 0
CpTables ==
    <<34>> \o [k \in 1..32 |-> 0] \o <<1, 16>> \o <<3, 0, 1, 16>> \o <<1, 16>>

\* block data after the tables (cpt.md 6.5): a literal is the flag 1 and
\* its code, a match the flag 0, the length code, the offset code and six
\* offset bits.
\*   1: A, match(3, offset 1)          2: A, B, match(4, offset 2)
\*   3: A, B, match(3, offset 3)       4: A, match(3, offset 0)
\*   5: A, match(4, 1), B, match(3, 2) 6: the tables cut short
\*   7: a table of literals of 129 bytes, more than CP_LIT_COUNT / 2
\*   8: match lengths 0 and 3 with the codes 0 and 1; A, match(0, 1), B
\*   9: A, then a match whose offset code is 1, which no symbol has
CpLzhStreams ==
    <<CpTables \o <<128, 32>>,
      CpTables \o <<180, 16>>,
      CpTables \o <<176, 24>>,
      CpTables \o <<128, 0>>,
      CpTables \o <<144, 56, 8>>,
      SubSeq(CpTables, 1, 38),
      <<129, 0, 0>>,
      SubSeq(CpTables, 1, 35) \o <<2, 16, 1>> \o <<1, 16>> \o <<128, 56>>,
      CpTables \o <<136, 0>>>>

\* how the fork was made (history)
CpGiven(use_lzh, n, uncomp_len) ==
    [kind |-> "cpt", use_lzh |-> use_lzh, stream |-> n,
     uncomp_len |-> uncomp_len]

\* =========================================================================
\* Specification of cp_decompress_fork on forks given byte by byte
\* =========================================================================

\* an LZH fork, by number and declared length
CpLzhInit ==
    /\ \E n \in 1..Len(CpLzhStreams) : \E uncomp_len \in CpLens \cup {5} :
         /\ input = Bytes(CpLzhStreams[n])
         /\ hist = [HistInit EXCEPT !.given = CpGiven(TRUE, n, uncomp_len)]
    /\ stack = <<>>
    /\ heap = <<>>
    /\ ret = NoRet
    /\ phase = "idle"

\* an LZH fork or an RLE fork
CptInit ==
    \/ CpLzhInit
    \/ /\ \E s \in SeqsUpTo(RleAlphabet, MaxRleLen) : \E uncomp_len \in CpLens :
            /\ input = Bytes(s)
            /\ hist = [HistInit EXCEPT !.given = CpGiven(FALSE, 0, uncomp_len)]
       /\ stack = <<>>
       /\ heap = <<>>
       /\ ret = NoRet
       /\ phase = "idle"

\* the compressed fork
CpSrc == input.content[1]

\* cp_decompress_fork (bin.c:1080-1096) up to its loop: the stream is set
\* up and the output buffer allocated
CpForkInit ==
    /\ phase = "idle"
    /\ hist.given.kind = "cpt"
    /\ LET out == grow_init(heap) IN
       /\ heap' = out.heap
       /\ stack' = <<[fork |-> cp_fork_init(hist.given.use_lzh,
                                             hist.given.uncomp_len),
                      out |-> out, bytes |-> <<>>]>>
    /\ phase' = "running"
    /\ UNCHANGED <<input, ret, hist>>

\* one turn of the loop (bin.c:1100-1104) in which cp_fork_read has bytes
CpForkChunk ==
    /\ phase = "running"
    /\ hist.given.kind = "cpt"
    /\ With(cp_fork_read(CpSrc, stack[1].fork, CP_CHUNK), LAMBDA r :
         /\ r.n > 0
         /\ stack' = <<[stack[1] EXCEPT !.fork = r.f,
                                        !.bytes = @ \o r.dst]>>)
    /\ UNCHANGED <<input, heap, ret, phase, hist>>

\* the turn in which cp_fork_read has none, and the return (bin.c:1102,
\* 1106)
CpForkFinish ==
    /\ phase = "running"
    /\ hist.given.kind = "cpt"
    /\ With(cp_fork_read(CpSrc, stack[1].fork, CP_CHUNK), LAMBDA r :
         /\ r.n <= 0
         /\ ret' = [list |-> ZeroList, err |-> NULL,
                    buf |-> grow_finish(stack[1].out, stack[1].bytes)]
         /\ hist' = [hist EXCEPT
                       !.cpt = [lzout |-> r.f.lzh.hist,
                                matches |-> r.f.lzh.matches,
                                fault |-> r.f.lzh.fault,
                                rle |-> r.f.rle]])
    /\ stack' = <<>>
    /\ phase' = "returned"
    /\ UNCHANGED <<input, heap>>

CptNext ==
    \/ CpForkInit
    \/ CpForkChunk
    \/ CpForkFinish

CptSpec == CptInit /\ [][CptNext]_vars

\* =========================================================================
\* Specification of the two LZSS decoders, method 13 and Compact Pro LZH
\* =========================================================================

\* the method-13 streams with matches, and one without
Sit13Samples == {11, 12, 14, 17}

\* peel_sit13(src, len, uncomp_len, &err) (sit13.c:615-661) on one of the
\* method-13 streams
Sit13Peel ==
    /\ hist.sit13 = <<>>
    /\ \E n \in Sit13Samples :
         \E r \in {peel_sit13(SitStreams[n].data, SitStreams[n].raw_len)} :
           hist' = [hist EXCEPT !.sit13 = <<[stream |-> n, ok |-> r.ok,
                                             bytes |-> r.bytes,
                                             matches |-> r.matches]>>]
    /\ UNCHANGED <<input, stack, heap, ret, phase>>

LzNext ==
    \/ Sit13Peel
    \/ CpForkInit
    \/ CpForkChunk
    \/ CpForkFinish

LzSpec == CpLzhInit /\ [][LzNext]_vars

\* =========================================================================
\* Specification of lzw_decode on streams of 9-bit codes
\* =========================================================================

\* the codes of the test streams: the letter A and the clear code
LzwCodes == {65, LZW_CLEAR_CODE}
\* most codes in a test stream: one more than a block of 8
MaxCodes == 9
\* bytes asked of lzw_decode
LzwWant == 9

\* bit p of the stream that holds the 9-bit codes one after the other,
\* least significant bit first (sit.md 9.4)
LzwBit(codes, p) == (codes[(p \div 9) + 1] \div (2 ^ (p % 9))) % 2

\* bits from..(upto - 1) of that stream as a number, padded with zeros
LzwBits(codes, from, upto) ==
    LET B(p) == IF p < 9 * Len(codes) THEN LzwBit(codes, p) ELSE 0 IN
    B(from) + 2 * B(from + 1) + 4 * B(from + 2) + 8 * B(from + 3)
      + 16 * B(from + 4) + 32 * B(from + 5) + 64 * B(from + 6)
      + 128 * B(from + 7)

\* the bytes of that stream
LzwPack(codes) ==
    [k \in 1..((9 * Len(codes) + 7) \div 8) |->
        LzwBits(codes, 8 * (k - 1), 8 * k)]

LzwInit ==
    /\ \E codes \in SeqsUpTo(LzwCodes, MaxCodes) :
         /\ input = Bytes(LzwPack(codes))
         /\ hist = [HistInit EXCEPT !.given = [kind |-> "lzw", codes |-> codes]]
    /\ stack = <<>>
    /\ heap = <<>>
    /\ ret = NoRet
    /\ phase = "idle"

\* lzw_decode (sit.c:349-416) called once on a fresh decoder, as
\* decompress_fork does for method 2 (sit.c:516-523)
LzwDecode ==
    /\ phase = "idle"
    /\ hist.given.kind = "lzw"
    /\ With(lzw_decode(input.content[1], lzw_create, <<>>, LzwWant), LAMBDA r :
         hist' = [hist EXCEPT !.lzw = [dst |-> r.dst, clears |-> r.z.clears,
                                       bit_pos |-> r.z.bit_pos]])
    /\ phase' = "returned"
    /\ UNCHANGED <<input, stack, heap, ret>>

LzwNext == LzwDecode

LzwSpec == LzwInit /\ [][LzwNext]_vars

\* =========================================================================
\* Byte level: StuffIt method 15, Arsenic (sit15.c), from the symbols of
\* the arithmetic decoder on
\* =========================================================================

\* the range of a C int
INT32_MAX == 2147483647
INT32_MIN == (-2147483647) - 1

\* a + b in int arithmetic: the outcomes [v, ub, trap].  Signed overflow is
\* undefined: the build wraps, or traps
add32(a, b) ==
    IF b >= 0 /\ a > INT32_MAX - b
    THEN {[v |-> ((a - INT32_MAX) + (b - 1)) + INT32_MIN, ub |-> TRUE,
           trap |-> FALSE],
          [v |-> 0, ub |-> TRUE, trap |-> TRUE]}
    ELSE IF b < 0 /\ a < INT32_MIN - b
    THEN {[v |-> ((a - INT32_MIN) + (b + 1)) + INT32_MAX, ub |-> TRUE,
           trap |-> FALSE],
          [v |-> 0, ub |-> TRUE, trap |-> TRUE]}
    ELSE {[v |-> a + b, ub |-> FALSE, trap |-> FALSE]}

\* v << p for v = 1 or 2 and p < 32, with the bits beyond bit 31 dropped
shl_wrap(v, p) ==
    IF p <= 29 \/ (p = 30 /\ v = 1) THEN v * (2 ^ p)
    ELSE IF (p = 30 /\ v = 2) \/ (p = 31 /\ v = 1) THEN INT32_MIN
    ELSE 0

\* v << p in int arithmetic, v = 1 or 2: the outcomes [v, ub, trap].  A
\* result that does not fit, and a count of 32 or more, are undefined: the
\* build keeps the low 32 bits, takes the count modulo 32, or traps
shl32(v, p) ==
    IF p <= 29 \/ (p = 30 /\ v = 1)
    THEN {[v |-> v * (2 ^ p), ub |-> FALSE, trap |-> FALSE]}
    ELSE {[v |-> shl_wrap(v, p % 32), ub |-> TRUE, trap |-> FALSE],
          [v |-> IF p >= 32 THEN 0 ELSE shl_wrap(v, p), ub |-> TRUE,
           trap |-> FALSE],
          [v |-> 0, ub |-> TRUE, trap |-> TRUE]}

\* mtf_init (sit15.c:133-137)
mtf_init == [k \in 1..256 |-> k - 1]

\* mtf_decode (sit15.c:140-147): [val, tbl]
mtf_decode(tbl, idx) ==
    [val |-> tbl[idx + 1],
     tbl |-> [k \in 1..256 |-> IF k = 1 THEN tbl[idx + 1]
                               ELSE IF k <= idx + 1 THEN tbl[k - 1]
                               ELSE tbl[k]]]

\* rand_tbl (sit15.c:155-172): its first entries, those a block of
\* ARS_RAND_REACH bytes can reach
rand_tbl == <<238, 86, 248, 195>>

\* build_lf_map (sit15.c:342-363): map[k] is the position of the k-th byte
\* of buf in the stable order of the byte values
build_lf_map(buf) ==
    With([i \in 1..Len(buf) |->
            Cardinality({j \in 1..Len(buf) :
                           buf[j] < buf[i] \/ (buf[j] = buf[i] /\ j < i)})],
         LAMBDA rank :
      With([r \in 0..(Len(buf) - 1) |->
              CHOOSE i \in 1..Len(buf) : rank[i] = r],
           LAMBDA at : [k \in 1..Len(buf) |-> at[k - 1] - 1]))

\* the values the arithmetic decoder hands out (ac_decode_sym,
\* ac_decode_field, sit15.c:280-335), in the order of its calls; which bits
\* encode them is not modelled
ArsSyms == hist.given.syms

\* parse_header (sit15.c:560-592) after the signature: the state that
\* calloc and the header leave.  at: symbols taken so far; pc: where the
\* decoder stands, "produce" at the top of the loop of produce_byte, "block"
\* in the selector loop of decode_block, "run" in consume_zero_run;
\* out: the bytes peel_sit15 has stored; blocks, ub: blocks started and
\* whether undefined behaviour has happened (history)
ars_parse_header(block_exp, eos) ==
    [block_exp |-> block_exp, blk_cap |-> 2 ^ (block_exp + 9),
     eos |-> eos # 0, at |-> 2,
     blk_buf |-> <<>>, blk_len |-> 0, lf_map |-> <<>>,
     bwt_origin |-> 0, out_pos |-> 0, bwt_idx |-> 0,
     randomized |-> FALSE, rand_ti |-> 0, rand_next |-> 0,
     rle_prev |-> 0, rle_streak |-> 0, rle_repeat |-> 0,
     mtf |-> <<>>, sel |-> 0, total |-> 0, bit_pos |-> 0, tok |-> 0,
     pc |-> "produce", out |-> <<>>, blocks |-> 0, ub |-> FALSE]

\* how a call of peel_sit15 ended (history)
ArsEnd(s, status, msg, oob) ==
    [status |-> status, msg |-> msg, out |-> s.out, blocks |-> s.blocks,
     eos |-> s.eos, ub |-> s.ub, oob |-> oob, blk_len |-> s.blk_len,
     blk_cap |-> s.blk_cap, left |-> s.blk_len - s.out_pos,
     rle_repeat |-> s.rle_repeat]

\* arsenic_abort (sit15.c:233-240) and the setjmp branch of peel_sit15
\* (sit15.c:632-637)
arsenic_abort(s, msg) ==
    /\ hist' = [hist EXCEPT !.ars = ArsEnd(s, "abort", msg, FALSE)]
    /\ stack' = <<>>
    /\ phase' = "returned"

\* the process dies: a trap, or a store far outside the block buffer
ArsCrash(s, oob) ==
    /\ hist' = [hist EXCEPT !.ars = ArsEnd(s, "crash", "", oob)]
    /\ stack' = <<>>
    /\ phase' = "returned"

\* the decoder goes on in state s
ArsGo(s) ==
    /\ stack' = <<s>>
    /\ UNCHANGED <<phase, hist>>

\* the next value of the arithmetic decoder is taken by F, or the bit
\* stream is exhausted (sit15.c:256)
ArsTake(s, F(_, _)) ==
    IF s.at < Len(ArsSyms) THEN F(ArsSyms[s.at + 1], [s EXCEPT !.at = @ + 1])
    ELSE arsenic_abort(s, "sit15: bitstream exhaustion")

ArsRunning(pc) ==
    /\ phase = "running"
    /\ hist.given.kind = "ars"
    /\ stack[1].pc = pc

\* peel_sit15 (sit15.c:616-655) up to its loop, for uncomp_len > 0
ArsParseHeader ==
    /\ phase = "idle"
    /\ hist.given.kind = "ars"
    /\ stack' = <<ars_parse_header(ArsSyms[1], ArsSyms[2])>>
    /\ phase' = "running"
    /\ UNCHANGED <<input, heap, ret, hist>>

\* peel_sit15 (sit15.c:658-665): all bytes are there
ArsDone ==
    /\ ArsRunning("produce")
    /\ Len(stack[1].out) = hist.given.uncomp_len
    /\ hist' = [hist EXCEPT !.ars = ArsEnd(stack[1], "ok", "", FALSE)]
    /\ stack' = <<>>
    /\ phase' = "returned"
    /\ UNCHANGED <<input, heap, ret>>

\* whether produce_byte has to fetch a block (sit15.c:524)
produce_needs_block(s) == s.out_pos >= s.blk_len

\* a produce_byte that decodes a block whenever it needs one
produce_may_decode_Always(s) == TRUE

\* whether it may (sit15.c:525-526)
produce_may_decode(s) == ~s.eos

\* decode_block (sit15.c:424-441) up to its loop
decode_block_start(s) ==
    ArsTake(s, LAMBDA rnd, s1 :
    ArsTake(s1, LAMBDA origin, s2 :
    ArsTake(s2, LAMBDA sel, s3 :
      ArsGo([s3 EXCEPT !.randomized = rnd # 0, !.bwt_origin = origin,
                       !.blk_len = 0, !.blk_buf = <<>>, !.mtf = mtf_init,
                       !.sel = sel, !.pc = "block",
                       !.blocks = @ + 1]))))

\* emit_bwt_byte (sit15.c:373-390) and steps 3 and 4 of produce_byte
\* (sit15.c:531-552).  An empty block has left lf_map as it was, whatever
\* that is: bwt_idx cannot be below blk_len = 0
produce_emit(s) ==
    IF s.blk_len = 0 THEN arsenic_abort(s, "sit15: BWT index out of bounds")
    ELSE
    LET idx  == s.lf_map[s.bwt_idx + 1]
        flip == s.randomized /\ s.rand_next = s.out_pos
        raw  == s.blk_buf[idx + 1]
        b    == IF flip THEN (IF raw % 2 = 0 THEN raw + 1 ELSE raw - 1)
                ELSE raw
        e    == [s EXCEPT !.bwt_idx = idx, !.out_pos = @ + 1, !.pc = "produce",
                          !.rand_ti = IF flip THEN (@ + 1) % 256 ELSE @,
                          !.rand_next = IF flip
                                        THEN @ + rand_tbl[((s.rand_ti + 1) % 256) + 1]
                                        ELSE @]
    IN  IF s.rle_streak = 4
        THEN IF b > 0
             THEN ArsGo([e EXCEPT !.rle_streak = 0, !.rle_repeat = b - 1,
                                  !.out = Append(@, s.rle_prev)])
             ELSE ArsGo([e EXCEPT !.rle_streak = 0])
        ELSE IF b # s.rle_prev
        THEN ArsGo([e EXCEPT !.rle_prev = b, !.rle_streak = 1,
                             !.out = Append(@, b)])
        ELSE ArsGo([e EXCEPT !.rle_streak = @ + 1, !.out = Append(@, b)])

\* one turn of the loop of produce_byte (sit15.c:516-553) for the next
\* byte of the output, up to decode_block if it is called
ArsProduce ==
    /\ ArsRunning("produce")
    /\ Len(stack[1].out) < hist.given.uncomp_len
    /\ LET s == stack[1] IN
       IF s.rle_repeat > 0
       THEN ArsGo([s EXCEPT !.rle_repeat = @ - 1, !.out = Append(@, s.rle_prev)])
       ELSE IF produce_needs_block(s)
       THEN IF produce_may_decode(s) THEN decode_block_start(s)
            ELSE arsenic_abort(s, "sit15: unexpected end of stream")
       ELSE produce_emit(s)
    /\ UNCHANGED <<input, heap, ret>>

\* decode_block after its loop (sit15.c:472-498), and the rest of the turn
\* of produce_byte that called it
decode_block_end(s) ==
    IF s.blk_len > 0 /\ s.bwt_origin >= s.blk_len
    THEN arsenic_abort(s, "sit15: BWT primary index >= block length")
    ELSE ArsTake(s, LAMBDA last, s1 :
           LET Ready(s2) ==
                 produce_emit(
                   [s2 EXCEPT !.lf_map = IF s.blk_len > 0
                                         THEN build_lf_map(s.blk_buf) ELSE @,
                              !.out_pos = 0, !.bwt_idx = s.bwt_origin,
                              !.rand_ti = 0, !.rand_next = rand_tbl[1],
                              !.rle_prev = 0, !.rle_streak = 0,
                              !.rle_repeat = 0, !.mtf = <<>>])
           IN  IF last # 0
               THEN ArsTake(s1, LAMBDA crc, s2 : Ready([s2 EXCEPT !.eos = TRUE]))
               ELSE Ready(s1))

\* one turn of the selector loop of decode_block (sit15.c:441-470)
ArsSelector ==
    /\ ArsRunning("block")
    /\ LET s == stack[1] IN
       IF s.sel = 10 THEN decode_block_end(s)
       ELSE IF s.sel < 2
       THEN ArsGo([s EXCEPT !.pc = "run", !.total = 0, !.bit_pos = 0,
                            !.tok = s.sel])
       ELSE LET Store(mtf_idx, s1) ==
                  IF s1.blk_len >= s1.blk_cap
                  THEN arsenic_abort(s1, "sit15: block buffer overflow")
                  ELSE LET d == mtf_decode(s1.mtf, mtf_idx) IN
                       ArsTake([s1 EXCEPT !.blk_buf = Append(@, d.val),
                                          !.blk_len = @ + 1, !.mtf = d.tbl],
                               LAMBDA sel, s2 : ArsGo([s2 EXCEPT !.sel = sel]))
            IN  IF s.sel = 2 THEN Store(1, s)
                ELSE ArsTake(s, Store)
    /\ UNCHANGED <<input, heap, ret>>

\* the end of a zero run in decode_block (sit15.c:449-458) with the run
\* length consume_zero_run returned and the selector that ended it
decode_block_fill(s, run_len, trailing) ==
    \E sum \in add32(s.blk_len, run_len) :
      LET s1 == [s EXCEPT !.ub = @ \/ sum.ub] IN
      IF sum.trap THEN ArsCrash(s1, FALSE)
      ELSE IF sum.v > s.blk_cap
      THEN arsenic_abort(s1, "sit15: block buffer overflow (zero run)")
      ELSE IF run_len < 0 \/ run_len > s.blk_cap - s.blk_len
      \* memset of (size_t)run_len bytes (sit15.c:453)
      THEN ArsCrash(s1, TRUE)
      ELSE ArsGo([s1 EXCEPT
                    !.blk_buf = @ \o [k \in 1..run_len |->
                                        mtf_decode(s.mtf, 0).val],
                    !.blk_len = sum.v, !.sel = trailing, !.pc = "block"])

\* one turn of the loop of consume_zero_run (sit15.c:414-418) and, when it
\* is the last, the rest of the turn of the selector loop
ArsRunToken ==
    /\ ArsRunning("run")
    /\ LET s == stack[1] IN
       \E term \in shl32(s.tok + 1, s.bit_pos) :
         \E total \in add32(s.total, term.v) :
           LET s1 == [s EXCEPT !.ub = @ \/ term.ub \/ total.ub,
                               !.total = total.v, !.bit_pos = @ + 1]
           IN  IF term.trap \/ total.trap THEN ArsCrash(s1, FALSE)
               ELSE ArsTake(s1, LAMBDA tok, s2 :
                      IF tok < 2 THEN ArsGo([s2 EXCEPT !.tok = tok])
                      ELSE decode_block_fill(s2, total.v, tok))
    /\ UNCHANGED <<input, heap, ret>>

\* -------------------------------------------------------------------------
\* Arsenic streams given to peel_sit15
\* -------------------------------------------------------------------------

\* block size exponents of the test streams
ArsExps == {0}
\* most tokens in a zero run: a run of more than 32 shifts past an int
MaxRun == 33
\* declared lengths of the output
ArsLens == {1, 5, 6}

\* n zero-run tokens t
ArsRun(n, t) == [k \in 1..n |-> t]

\* the selectors of a block before its end marker: literals, with the
\* index of selector 3 taken from its group model, and zero runs alone or
\* after one or two literals
ArsBodies ==
    {<<>>, <<2>>, <<2, 2>>, <<3, 2>>, <<2, 3, 3>>, <<0, 2, 0>>,
     <<2, 1, 1, 2, 2>>}
      \cup {pre \o ArsRun(n, t) : pre \in {<<>>, <<2, 2>>}, n \in 1..MaxRun,
                                  t \in {0, 1}}

\* a block: randomization flag, primary index, selectors, end marker, the
\* footer flag and the CRC that follows a set flag
ArsBlock(origin, body, last) ==
    <<0, origin>> \o body \o <<10, last>> \o (IF last # 0 THEN <<0>> ELSE <<>>)

\* the blocks that may follow the first one
ArsSecond == {<<>>, ArsBlock(0, <<2>>, 1), ArsBlock(0, <<2, 2>>, 0)}

ArsInit ==
    /\ \E block_exp \in ArsExps, eos \in {0, 1}, origin \in {0, 1},
          body \in ArsBodies, last \in {0, 1}, more \in ArsSecond,
          uncomp_len \in ArsLens :
         /\ input = Bytes(<<>>)
         /\ hist = [HistInit EXCEPT !.given =
                      [kind |-> "ars", uncomp_len |-> uncomp_len,
                       syms |-> <<block_exp, eos>>
                                  \o ArsBlock(origin, body, last) \o more]]
    /\ stack = <<>>
    /\ heap = <<>>
    /\ ret = NoRet
    /\ phase = "idle"

ArsNext ==
    \/ ArsParseHeader
    \/ ArsProduce
    \/ ArsSelector
    \/ ArsRunToken
    \/ ArsDone

ArsSpec == ArsInit /\ [][ArsNext]_vars

\* =========================================================================
\* Specification of parse_sit5 on archives with crafted entry headers,
\* followed turn by turn of its loop
\* =========================================================================

\* the first 48 bytes of header 1 of an entry (sit.md 5.3) that declares
\* the header size h1_len, with the CRC of that many bytes at 32: flags at
\* 9, the data fork's uncompressed length `raw` (4 bytes) at 34, a zero
\* packed length, and the two bytes `tail` at 46
Sit5Crafted(h1_len, flags, raw, tail) ==
    LET h == <<165, 165, 165, 165, 1, 0>> \o wr16be(h1_len) \o <<0, flags>>
               \o Zeros(24) \o raw \o Zeros(8) \o tail
        c == wr16be(sit_crc(SubSeq(h, 1, h1_len)))
    IN  [h EXCEPT ![33] = c[1], ![34] = c[2]]

\* header sizes of the crafted entries: none, one byte short of the CRC
\* field, up to it, and the whole fixed part
Sit5HeaderSizes == {0, 33, 34, 48}

\* the entries of the test archives: skip markers (length 0xFFFFFFFF) of
\* files and of folders, a folder with one child, empty files with short
\* headers, each with its header 2, and a stored file
Sit5Items ==
    {Sit5Crafted(n, f, <<255, 255, 255, 255>>, <<0, 0>>) :
        n \in Sit5HeaderSizes, f \in {0, 64}}
      \cup {Sit5Crafted(48, 64, Zeros(4), <<0, 1>>) \o Zeros(36)}
      \cup {Sit5Crafted(n, 0, Zeros(4), <<0, 0>>) \o Zeros(36) :
              n \in Sit5HeaderSizes}
      \cup {Sit5EntryBytes(0, <<97>>, StoredFork(1, sit_crc(<<65>>), <<65>>),
                           0, 0)}

\* most entries in a test archive
MaxSit5Items == 2

Sit5Init ==
    /\ \E items \in SeqsUpTo(Sit5Items, MaxSit5Items) :
         \E count \in 1..3, checked \in BOOLEAN :
           /\ items # <<>>
           /\ input = Bytes(Sit5Archive(count,
                              (IF Len(items) = 2 THEN items[1] \o items[2]
                               ELSE items[1]) \o Zeros(2)))
           /\ hist = [HistInit EXCEPT !.given =
                        [kind |-> "sit5", count |-> count,
                         \* the build detects stores outside a heap block
                         checked |-> checked]]
    /\ stack = <<>>
    /\ heap = <<>>
    /\ ret = NoRet
    /\ phase = "idle"

Sit5Base == input.content[1]

\* parse_sit5 (sit.c:735-753) up to its loop
Sit5Start ==
    /\ phase = "idle"
    /\ hist.given.kind = "sit5"
    /\ IF Len(Sit5Base) < SIT5_MIN_SIZE
       THEN /\ hist' = [hist EXCEPT !.sit5 =
                          [res |-> ParseErr("SIT5: archive too small"),
                           overrun |-> FALSE, crashed |-> FALSE]]
            /\ phase' = "returned"
            /\ stack' = <<>>
       ELSE /\ stack' = <<[cursor |-> rd32be(Sit5Base, 94),
                           remaining |-> rd16be(Sit5Base, 92),
                           dmap |-> <<>>, entries |-> <<>>, enc |-> FALSE,
                           overrun |-> FALSE]>>
            /\ phase' = "running"
            /\ hist' = hist
    /\ UNCHANGED <<input, heap, ret>>

\* tmp[32] = tmp[33] = 0 (sit.c:786) stores outside the copy of `copied`
\* bytes that malloc(h1_len) returned
sit5_tmp_overrun(copied) == copied >= 0 /\ copied < 34

\* one turn of the loop (sit.c:755-960).  A store outside the copy is
\* undefined: a build that checks heap blocks stops there, another goes on
Sit5Turn ==
    /\ phase = "running"
    /\ hist.given.kind = "sit5"
    /\ LET s == stack[1] IN
       With(parse_sit5_turn(Sit5Base, s.cursor, s.remaining, s.dmap,
                            s.entries, s.enc),
            LAMBDA t :
         LET overrun == s.overrun \/ sit5_tmp_overrun(t.copied) IN
         IF sit5_tmp_overrun(t.copied) /\ hist.given.checked
         THEN /\ hist' = [hist EXCEPT !.sit5 =
                            [res |-> ParseErr(""), overrun |-> TRUE,
                             crashed |-> TRUE]]
              /\ phase' = "returned"
              /\ stack' = <<>>
         ELSE IF t.done
         THEN /\ hist' = [hist EXCEPT !.sit5 =
                            [res |-> t.res, overrun |-> overrun,
                             crashed |-> FALSE]]
              /\ phase' = "returned"
              /\ stack' = <<>>
         ELSE /\ stack' = <<[cursor |-> t.st.cursor,
                             remaining |-> t.st.remaining,
                             dmap |-> t.st.dmap, entries |-> t.st.entries,
                             enc |-> t.st.enc, overrun |-> overrun]>>
              /\ UNCHANGED <<phase, hist>>)
    /\ UNCHANGED <<input, heap, ret>>

Sit5Next ==
    \/ Sit5Start
    \/ Sit5Turn

Sit5Spec == Sit5Init /\ [][Sit5Next]_vars

\* =========================================================================
\* Specification of m13_setup on dynamic-mode streams
\* =========================================================================

\* a meta-code command with its argument (sit13.md 6.3)
M13Cmd(cmd, arg) == [cmd |-> cmd, arg |-> arg]

\* bits of the argument a command reads (sit13.c:389, 396, 404)
M13ArgBits(cmd) ==
    IF cmd = 34 THEN 1 ELSE IF cmd = 35 THEN 3 ELSE IF cmd = 36 THEN 6 ELSE 0

\* the bits of a command in the stream: its code word of m13_meta_words from
\* the top bit down, as m13_pool_insert places it, then its argument from
\* the low bit up, as m13_br_read takes it
M13CmdBits(c) ==
    LET n == At(m13_meta_lens, c.cmd)
        w == At(m13_meta_words, c.cmd)
    IN  [k \in 1..n |-> (w \div (2 ^ (n - k))) % 2]
          \o [k \in 1..M13ArgBits(c.cmd) |-> (c.arg \div (2 ^ (k - 1))) % 2]

RECURSIVE M13Flat(_, _, _)
\* the bits of the commands cmds[lo + 1 .. hi], the first half of them and
\* then the rest
M13Flat(cmds, lo, hi) ==
    IF hi - lo = 0 THEN <<>>
    ELSE IF hi - lo = 1 THEN M13CmdBits(cmds[hi])
    ELSE M13Flat(cmds, lo, (lo + hi) \div 2)
           \o M13Flat(cmds, (lo + hi) \div 2, hi)

\* a stream of bits as bytes, the first bit lowest, the last byte padded
\* with zeros
M13Pack(bits) ==
    LET B(p) == IF p <= Len(bits) THEN bits[p] ELSE 0 IN
    [k \in 1..((Len(bits) + 7) \div 8) |->
        B(8 * k - 7) + 2 * B(8 * k - 6) + 4 * B(8 * k - 5) + 8 * B(8 * k - 4)
          + 16 * B(8 * k - 3) + 32 * B(8 * k - 2) + 64 * B(8 * k - 1)
          + 128 * B(8 * k)]

\* most commands a test stream starts its first code-length list with
MaxHead == 2
\* the commands they are drawn from: length 1, absent, increment, decrement
M13HeadCmds == {0, 31, 32, 33}

\* the commands that repeat the current length until n more entries are
\* stored: long repeats of 74, then one repeat for the rest
M13Fill(n) ==
    [k \in 1..(n \div 74) |-> M13Cmd(36, 63)]
      \o (IF n % 74 >= 11 THEN <<M13Cmd(36, (n % 74) - 11)>>
          ELSE IF n % 74 >= 3 THEN <<M13Cmd(35, (n % 74) - 3)>>
          ELSE [k \in 1..(n % 74) |-> M13Cmd(34, 0)])

\* the commands a test stream ends its first list with, when one entry is
\* left to store: an absent symbol and the three repeat commands, command
\* 34 with either bit
M13Tails ==
    {M13Cmd(31, 0), M13Cmd(34, 0), M13Cmd(34, 1), M13Cmd(35, 0),
     M13Cmd(36, 0)}

\* the commands of the distance list of a test stream, for its 10 symbols:
\* two of length 1 and eight absent, or one long repeat of 11
M13DistLists ==
    {<<M13Cmd(0, 0), M13Cmd(0, 0)>> \o [k \in 1..8 |-> M13Cmd(31, 0)],
     <<M13Cmd(36, 0)>>}

\* a dynamic-mode stream with a shared literal tree and 10 distance symbols
\* (header byte 0x08): the head, the fill up to the last symbol, the tail,
\* the distance list
M13Stream(head, tail, dist) ==
    With([k \in 1..Len(head) |-> M13Cmd(head[k], 0)]
           \o M13Fill((M13_SYM_COUNT - 1) - Len(head)) \o <<tail>> \o dist,
         LAMBDA cmds :
      <<8>> \o M13Pack(M13Flat(cmds, 0, Len(cmds))))

M13Init ==
    /\ \E head \in SeqsUpTo(M13HeadCmds, MaxHead) :
       \E tail \in M13Tails : \E dist \in M13DistLists :
         /\ input = Bytes(M13Stream(head, tail, dist))
         /\ hist = [HistInit EXCEPT
                      !.given = [kind |-> "m13", head |-> head, tail |-> tail,
                                 dist |-> dist]]
    /\ stack = <<>>
    /\ heap = <<>>
    /\ ret = NoRet
    /\ phase = "idle"

\* m13_setup (sit13.c:457-524) as peel_sit13 calls it (sit13.c:642), on a
\* state whose bit reader is at the start of the stream
M13Setup ==
    /\ phase = "idle"
    /\ hist.given.kind = "m13"
    /\ With(m13_setup(input.content[1]), LAMBDA st :
         hist' = [hist EXCEPT !.m13 = [ok |-> st.ok, hang |-> st.hang,
                                       overrun |-> st.overrun,
                                       excess |-> st.excess]])
    /\ phase' = "returned"
    /\ UNCHANGED <<input, stack, heap, ret>>

M13Next == M13Setup

M13Spec == M13Init /\ [][M13Next]_vars

\* =========================================================================
\* Specification of the two readers of the Compact Pro top header
\* =========================================================================

\* the header checks of peel_cpt without the comparison of the directory
\* offset with the input size
cpt_header_NoSizeCheck(src) ==
    IF Len(src) < 8 THEN "CPT: input too short"
    ELSE IF At(src, 0) # CP_MAGIC \/ At(src, 1) # CP_VOLUME_SINGLE
    THEN "CPT: bad magic"
    ELSE IF rd32be(src, 4) < 8 \/ rd32be(src, 4) > 268435456
    THEN "CPT: directory offset out of range"
    ELSE ""

\* the header checks of peel_cpt (bin.c:1137-1152): the message of the
\* error it returns, "" when it goes on to the directory
cpt_header(src) ==
    IF Len(src) < 8 THEN "CPT: input too short"
    ELSE IF At(src, 0) # CP_MAGIC \/ At(src, 1) # CP_VOLUME_SINGLE
    THEN "CPT: bad magic"
    ELSE IF rd32be(src, 4) < 8 \/ rd32be(src, 4) > 268435456
            \/ rd32be(src, 4) >= Len(src)
    THEN "CPT: directory offset out of range"
    ELSE ""

\* longest test input
MaxHdrLen == 13
\* the values of the bytes 0 and 1 of a test input, and of its directory
\* offset: around 8, around the lengths of the inputs, around 256 MiB
CptHdrBytes == {0, 1, 2}
CptHdrOffsets == {0, 7, 8, 9, 12, 13, 268435456, 268435457}

\* the first n bytes of a header with these fields, zeros after it
CptHdrInput(b0, b1, dir_off, n) ==
    SubSeq(<<b0, b1, 0, 0>> \o wr32be(dir_off) \o Zeros(MaxHdrLen), 1, n)

CptHdrInit ==
    /\ \E b0, b1 \in CptHdrBytes : \E dir_off \in CptHdrOffsets :
       \E n \in 0..MaxHdrLen :
         input = Bytes(CptHdrInput(b0, b1, dir_off, n))
    /\ hist = [HistInit EXCEPT
                 !.given = [kind |-> "cpthdr"],
                 !.cpthdr = [detected |-> <<>>, verdict |-> <<>>]]
    /\ stack = <<>>
    /\ heap = <<>>
    /\ ret = NoRet
    /\ phase = "idle"

\* cpt_detect(src, len) (bin.c:1116-1126)
CptProbe ==
    /\ hist.given.kind = "cpthdr"
    /\ hist.cpthdr.detected = <<>>
    /\ hist' = [hist EXCEPT
                  !.cpthdr.detected = <<cpt_detect(input.content[1])>>]
    /\ UNCHANGED <<input, stack, heap, ret, phase>>

\* peel_cpt(src, len, &err) up to the end of its header checks
\* (bin.c:1137-1152)
CptValidate ==
    /\ hist.given.kind = "cpthdr"
    /\ hist.cpthdr.verdict = <<>>
    /\ hist' = [hist EXCEPT
                  !.cpthdr.verdict = <<cpt_header(input.content[1])>>]
    /\ UNCHANGED <<input, stack, heap, ret, phase>>

CptHdrNext ==
    \/ CptProbe
    \/ CptValidate

CptHdrSpec == CptHdrInit /\ [][CptHdrNext]_vars

\* =========================================================================
\* Specification of parse_classic on archives of folder markers and files
\* =========================================================================

\* most entries of a test archive after the folders it opens first
MaxItems == 4
\* the folders a test archive opens first: none, or one less than the
\* folder stack holds
ClassicOpened == {0, SIT_MAX_DEPTH - 1}
\* the entries: a folder start, a folder start whose name length is 64, a
\* folder end, a file without forks
ClassicItems == {"start", "long", "end", "file"}

ClassicItemBytes(item) ==
    IF item = "start"
    THEN ClassicEntryBytes(SIT_FOLDER_START, 0, <<100>>, NoStoredFork,
                           NoStoredFork)
    ELSE IF item = "long"
    THEN [ClassicEntryBytes(SIT_FOLDER_START, 0, <<100>>, NoStoredFork,
                            NoStoredFork) EXCEPT ![3] = 64]
    ELSE IF item = "end"
    THEN ClassicEntryBytes(0, SIT_FOLDER_END, <<>>, NoStoredFork,
                           NoStoredFork)
    ELSE ClassicEntryBytes(0, 0, <<102>>, NoStoredFork, NoStoredFork)

RECURSIVE ClassicBody(_, _)
ClassicBody(items, k) ==
    IF k > Len(items) THEN <<>>
    ELSE ClassicItemBytes(items[k]) \o ClassicBody(items, k + 1)

ClassicInit ==
    /\ \E n \in ClassicOpened : \E items \in SeqsUpTo(ClassicItems, MaxItems) :
         input = Bytes(ClassicArchive(
                         n + Len(items),
                         ClassicBody([k \in 1..n |-> "start"] \o items, 1)))
    /\ hist = [HistInit EXCEPT !.given = [kind |-> "classic"]]
    /\ stack = <<>>
    /\ heap = <<>>
    /\ ret = NoRet
    /\ phase = "idle"

ClassicBase == input.content[1]

\* parse_classic up to its loop (sit.c:577-595) on an archive at offset 0.
\* open, expect, drops and files are kept for the properties: the folder
\* starts met and not yet ended, each with the folder stack it was met
\* with; the one of them the last end marker ended; the folder starts that
\* were not pushed; the files listed, each with the last two as they were
ClassicStart ==
    /\ phase = "idle"
    /\ hist.given.kind = "classic"
    /\ ~(Len(ClassicBase) < SIT_CLASSIC_HDR_SIZE)
    /\ stack' = <<[file_count |-> rd16be(ClassicBase, 4),
                   cursor |-> SIT_CLASSIC_HDR_SIZE, done |-> 0,
                   dirs |-> <<>>, entries |-> <<>>, enc |-> FALSE,
                   open |-> <<>>, expect |-> <<>>, drops |-> 0,
                   files |-> <<>>]>>
    /\ phase' = "running"
    /\ UNCHANGED <<input, heap, ret, hist>>

\* the locals after a turn that met the entry with the bytes rm, dm and
\* nlen, with what is kept for the properties
ClassicAfter(s, st, rm, dm, nlen) ==
    LET next == [s EXCEPT !.cursor = st.cursor, !.done = st.done,
                          !.dirs = st.dirs, !.entries = st.entries,
                          !.enc = st.enc]
    IN
    IF rm = SIT_FOLDER_START \/ dm = SIT_FOLDER_START
    THEN [next EXCEPT
            !.open = Append(@, [saved |-> s.dirs,
                                pushed |-> classic_folder_pushed(s.dirs,
                                                                 nlen)]),
            !.expect = <<>>,
            !.drops = IF classic_folder_pushed(s.dirs, nlen) THEN @
                      ELSE @ + 1]
    ELSE IF rm = SIT_FOLDER_END \/ dm = SIT_FOLDER_END
    THEN IF s.open = <<>> THEN [next EXCEPT !.expect = <<>>]
         ELSE [next EXCEPT !.open = SubSeq(@, 1, Len(@) - 1),
                           !.expect = <<s.open[Len(s.open)]>>]
    ELSE IF Len(st.entries) > Len(s.entries)
    THEN [next EXCEPT
            !.files = Append(@, [name |-> st.entries[Len(st.entries)].name,
                                 expect |-> s.expect, drops |-> s.drops])]
    ELSE next

\* one turn of the loop of parse_classic (sit.c:597-705), or its return
\* (sit.c:707)
ClassicTurn ==
    /\ phase = "running"
    /\ hist.given.kind = "classic"
    /\ LET s == stack[1] IN
       With(parse_classic_turn(ClassicBase, s.file_count, s.cursor, s.done,
                               s.dirs, s.entries, s.enc), LAMBDA t :
         IF t.done
         THEN /\ hist' = [hist EXCEPT !.classic = s.files]
              /\ phase' = "returned"
              /\ stack' = <<>>
         ELSE /\ stack' = <<ClassicAfter(s, t.st, At(ClassicBase, s.cursor),
                                         At(ClassicBase, s.cursor + 1),
                                         At(ClassicBase, s.cursor + 2))>>
              /\ UNCHANGED <<phase, hist>>)
    /\ UNCHANGED <<input, heap, ret>>

ClassicNext ==
    \/ ClassicStart
    \/ ClassicTurn

ClassicSpec == ClassicInit /\ [][ClassicNext]_vars

\* =========================================================================
\* Properties of the driver
\* =========================================================================

AllocIds == 1..Len(heap)

RetNames == [i \in 1..Len(ret.list.items) |-> ret.list.items[i].name]

NonEmptyFile(f) == f.data_fork.size > 0 \/ f.resource_fork.size > 0

StillWrapped(f) ==
    FmtKind(detect_format(BufBlob(f.data_fork))) = "WRAPPER"

ForkFmt(f) ==
    IF f.data_fork.data # NULL /\ f.data_fork.size > 0
    THEN detect_format(BufBlob(f.data_fork)) ELSE 0

\* C4: recursive re-peel starts a sub-peel only for a data fork that
\* detect_format reports as a wrapper; a fork reported as an archive is not
\* followed and the file is appended to the result unchanged.
C4_OnlyWrappersFollowed ==
    [][(Running("recursive_peel_files", "loop") /\ Top.i < Top.list.count) =>
         /\ (Len(stack') > Len(stack)) =>
                FmtKind(ForkFmt(CurFile(Top))) = "WRAPPER"
         /\ (FmtKind(ForkFmt(CurFile(Top))) = "ARCHIVE") =>
                /\ Len(stack') = Len(stack)
                /\ stack'[Len(stack)].result = Append(Top.result, CurFile(Top))
      ]_vars

C4_Witness ==
    /\ phase = "returned"
    /\ hist.noArch > 0
    /\ \E i \in 1..Len(ret.list.items) :
          /\ ret.list.items[i].name = "sit"
          /\ FmtKind(ForkFmt(ret.list.items[i])) = "ARCHIVE"

\* C5: the files of a sub-peel are appended to the result in their own
\* order exactly where the re-peeled file stood; every other file is
\* appended as it is, the files not yet visited keep their order, and the
\* list returned is the result so built.
C5_OrderPreserved ==
    [][/\ (Running("recursive_peel_files", "await") /\ ret.err = NULL) =>
            stack'[Len(stack)].result = Top.result \o ret.list.items
       /\ (Running("recursive_peel_files", "await") /\ ret.err # NULL) =>
            stack'[Len(stack)].result = Append(Top.result, CurFile(Top))
       /\ (/\ Running("recursive_peel_files", "loop")
           /\ Top.i < Top.list.count
           /\ Len(stack') = Len(stack)) =>
            stack'[Len(stack)].result = Append(Top.result, CurFile(Top))
       /\ (/\ stack # <<>> /\ Top.fn = "recursive_peel_files"
           /\ Top.pc # "entry" /\ Len(stack') = Len(stack)) =>
            \A j \in (Top.i + 2)..Top.list.count :
                stack'[Len(stack)].list.items[j] = Top.list.items[j]
       /\ (Running("recursive_peel_files", "loop")
           /\ Top.i >= Top.list.count) =>
            ret'.list.items = Top.result
      ]_vars

\* a two-file sub-list was spliced between two untouched files
C5_Witness ==
    /\ phase = "returned"
    /\ hist.spliced >= 2
    /\ RetNames = <<"raw", "a", "b">>

\* C6: every call ends either with a value and a null error, or with a zero
\* value and a populated error: a failed decoder call has its error set and
\* returns a zero value, a successful one has no error, and peel never
\* returns a list together with an error nor hides a failed decode.
C6_ValueXorError ==
    /\ \A k \in 1..Len(hist.calls) :
          /\ hist.calls[k].failed => (hist.calls[k].err # NULL /\ hist.calls[k].zero)
          /\ ~hist.calls[k].failed => hist.calls[k].err = NULL
    /\ (phase = "returned") =>
          /\ (ret.err # NULL) => ret.list = ZeroList
          /\ hist.decFail => ret.err # NULL

\* C7: every file of a list returned by peel has a non-empty fork.
C7_NonEmptyFork ==
    (phase = "returned" /\ ret.err = NULL) =>
        \A i \in 1..Len(ret.list.items) : NonEmptyFile(ret.list.items[i])

\* C8: no allocation is ever released twice, and once the caller has called
\* peel_file_list_free the list is the zero list and every allocation made
\* during the peel, except the error object the caller still holds and
\* what a failed decoder left behind, has been released exactly once.
C8_ReleasedExactlyOnce ==
    /\ \A id \in AllocIds : heap[id] <= 1
    /\ (phase = "freed") =>
          /\ ret.list = ZeroList
          /\ \A id \in AllocIds \ hist.lost : id = ret.err \/ heap[id] = 1

\* a list built by splicing and by keeping a file after a failed sub-peel
\* was freed
C8_Witness ==
    /\ phase = "freed"
    /\ hist.spliced >= 2
    /\ hist.kept >= 1
    /\ Len(heap) >= 6

\* =========================================================================
\* Properties of the decoder entry points
\* =========================================================================

\* C9: whenever a decoder entry point returns an error, every allocation of
\* the call other than the error object itself (decoder state, block
\* buffer, LF-map, output buffer, decoded forks) has been released.
C9_FailedDecodeReleasesAll ==
    (phase = "returned" /\ ret.err # NULL) =>
        \A id \in AllocIds : id = ret.err \/ heap[id] >= 1

\* =========================================================================
\* Properties of peel on corrupted BinHex text
\* =========================================================================

\* the messages of the three CRC checks (hqx.c:288, 333, 362)
CrcMessages ==
    {"BinHex: header CRC mismatch",
     E_FORKCRC("data", FALSE), E_FORKCRC("resource", FALSE),
     E_FORKCRC("data", TRUE), E_FORKCRC("resource", TRUE)}

\* zero-based offset of the first payload character of the text s
PayloadStart(s) == hqx_find_start_colon(s, hqx_find_preamble(s))

RECURSIVE raw_from(_, _, _)
\* the bytes hqx_raw_byte yields from dec on, up to the end of the payload
raw_from(src, dec, acc) ==
    With(hqx_raw_byte(src, dec), LAMBDA r :
      IF r.abort # "" \/ r.b < 0 THEN acc
      ELSE raw_from(src, r.dec, Append(acc, r.b)))

\* the 8-bit stream of the payload of s, before run-length expansion
RawBytes(s) == raw_from(s, hqx_decoder_init(PayloadStart(s)), <<>>)

\* the corruption of hist.given puts another character of the alphabet in
\* place of a payload character of the known-good file
PayloadCharReplaced ==
    /\ hist.given # <<>>
    /\ hist.given.pos > PayloadStart(GoodFiles[hist.given.d])
    /\ hist.given.pos <= Len(GoodFiles[hist.given.d]) - 2
    /\ rev_table[GoodFiles[hist.given.d][hist.given.pos]] <= 63
    /\ rev_table[hist.given.val] <= 63

\* ... and the 8-bit stream differs, but not in the filename length, not in
\* where the 0x90 markers are and not in the byte that follows a marker
StreamDamaged ==
    LET good == RawBytes(GoodFiles[hist.given.d])
        bad  == RawBytes(input.content[1])
    IN  /\ Len(bad) = Len(good)
        /\ bad # good
        /\ bad[1] = good[1]
        /\ \A k \in 1..Len(good) :
              /\ (good[k] = RLE_MARKER) = (bad[k] = RLE_MARKER)
              /\ (k > 1 /\ good[k - 1] = RLE_MARKER) => bad[k] = good[k]

ClosingColonMissing ==
    /\ hist.given # <<>>
    /\ hist.given.pos = 0
    /\ hist.given.len >= PayloadStart(GoodFiles[hist.given.d])
    /\ hist.given.len <= Len(GoodFiles[hist.given.d]) - 2

\* ... and at least the last payload character is missing as well
PayloadCutShort ==
    /\ ClosingColonMissing
    /\ hist.given.len < Len(GoodFiles[hist.given.d]) - 2

SitReturned == phase = "returned" /\ hist.given.kind \in {"classic", "sit5"}

\* the verdicts of the fork decoders peel_sit ran
SitForks == hist.sit.forks

\* peel_sit failed: it returned an error and no list.  A failure whose
\* error object cannot be allocated is not seen as one by any caller (C6),
\* and is left out here.
SitFailed == hist.sit.mem => ret.list = ZeroList /\ ret.err # NULL

\* the decoder of fork v ended with bytes whose CRC is not the stored one
CrcMismatch(v) == sit_crc(v.rec.produced) # v.rec.crc

C13_ShortForkRefused ==
    SitReturned =>
      \A i \in 1..Len(SitForks) :
        SitForks[i].rec.method \in {0, 1, 2}
          /\ Len(SitForks[i].rec.produced) < SitForks[i].rec.raw_len
          => ~SitForks[i].ok

\* C14: when the parser stops at an entry header that does not fit in the
\* input while the declared count is not reached, peel_sit fails.
C14_HeaderOverrunFails ==
    SitReturned /\ hist.sit.cut => SitFailed

\* C15: a classic archive with an entry whose method byte has bit 4 set is
\* not decoded: peel_sit returns no list.
C15_ClassicEncryptedRejected ==
    SitReturned /\ hist.given.kind = "classic" /\ hist.given.enc
      => ret.list = ZeroList

\* C16: a SIT5 archive whose first entry has bit 5 of its flags byte set
\* makes peel_sit fail.
C16_Sit5EncryptedRejected ==
    SitReturned /\ hist.given.kind = "sit5" /\ hist.given.enc
      /\ hist.given.len = hist.given.whole
      => SitFailed

\* C18: a fork in whose LZW stream a code names an entry that does not
\* exist is refused.
C18_InvalidLzwCodeRefused ==
    SitReturned =>
      \A i \in 1..Len(SitForks) :
        SitForks[i].rec.invalid => ~SitForks[i].ok

\* C19: a method-13 stream that is read beyond its end gives no output.
C19_Sit13ExhaustionFatal ==
    SitReturned =>
      \A i \in 1..Len(SitForks) :
        SitForks[i].rec.method = 13 /\ SitForks[i].rec.exhausted
          => SitForks[i].rec.produced = <<>>

\* =========================================================================
\* Properties of cp_decompress_fork and of the LZSS decoders
\* =========================================================================

\* cp_decompress_fork has returned
CpReturned == phase = "returned" /\ hist.given.kind = "cpt"

\* the bytes of the buffer it returned
CpOut == IF ret.buf.bytes = <<>> THEN <<>> ELSE ret.buf.bytes[1].content[1]

\* the RLE fork is a literal B, then the run escape 0x81 0x82 N with N at
\* least 2, and the declared length has room for N bytes
CpLiteralThenRun ==
    /\ ~hist.given.use_lzh
    /\ Len(CpSrc) = 4
    /\ CpSrc[1] # 129 /\ CpSrc[2] = 129 /\ CpSrc[3] = 130 /\ CpSrc[4] >= 2
    /\ hist.given.uncomp_len >= CpSrc[4]

\* C17: a literal B followed by 0x81 0x82 N decodes to N - 1 bytes B in
\* all, the literal included.
C17_RunTotalIsCountLess1 ==
    CpReturned /\ CpLiteralThenRun
      => CpOut = [k \in 1..(CpSrc[4] - 1) |-> CpSrc[1]]

\* every byte that the match m copied into `out` is the byte `dist`
\* places before it, bytes written by the same match included (a place
\* that no byte was written to yet holds 0)
OverlapCopied(out, at, len, dist) ==
    \A k \in 0..(len - 1) :
      at + k < Len(out)
        => At(out, at + k) = IF dist >= 1 /\ at + k - dist >= 0
                             THEN At(out, at + k - dist) ELSE 0

\* C20: in the output of peel_sit13 and in that of the Compact Pro LZH
\* decoder, every byte copied by a match is the byte `offset` places before
\* it in the output as it stands when the byte is written, so that a match
\* longer than its offset repeats the last `offset` bytes and offset 1 with
\* length L gives L copies of the byte before the match.
C20_OverlappingMatchRepeats ==
    /\ \A i \in 1..Len(hist.sit13) :
         LET r == hist.sit13[i] IN
         r.ok => \A j \in 1..Len(r.matches) :
                   OverlapCopied(r.bytes, r.matches[j].at, r.matches[j].len,
                                 r.matches[j].dist)
    /\ CpReturned /\ hist.given.use_lzh
         => \A j \in 1..Len(hist.cpt.matches) :
              LET m == hist.cpt.matches[j] IN
              OverlapCopied(hist.cpt.lzout, m.at, m.len, m.offset)

\* both decoders have expanded a literal A and a match of length 3 at
\* offset 1 to AAAA
C20_Witness ==
    /\ Len(hist.sit13) = 1
    /\ hist.sit13[1].ok
    /\ hist.sit13[1].matches = <<[at |-> 1, len |-> 3, dist |-> 1]>>
    /\ hist.sit13[1].bytes = <<65, 65, 65, 65>>
    /\ CpReturned /\ hist.given.use_lzh
    /\ hist.cpt.matches = <<[at |-> 1, len |-> 3, offset |-> 1]>>
    /\ hist.cpt.lzout = <<65, 65, 65, 65>>
    /\ CpOut = <<65, 65, 65, 65>>


\* -------------------------------------------------------------------------
\* Broken Compact Pro forks (cpt.md 5.6, 8)
\* -------------------------------------------------------------------------

\* the RLE stream ended inside an escape sequence
CpRleCut == hist.cpt.rle.cut

\* the LZH stream is corrupt: an oversized table, a code that leads to no
\* node, or the match length symbol 0
CpLzhCorrupt == hist.cpt.fault \in {"table", "node", "mlen0"}

\* cp_decompress_fork returned a buffer, shorter than the declared length
CpShortFork ==
    /\ ret.err = NULL
    /\ Len(CpOut) < hist.given.uncomp_len

\* C21: a fork whose RLE stream ends inside an escape sequence, or whose LZH
\* stream is corrupt, is not returned as a fork shorter than its declared
\* uncompressed length
C21_BrokenForkIsNotReturnedShort ==
    CpReturned /\ (CpRleCut \/ CpLzhCorrupt) => ~CpShortFork



\* -------------------------------------------------------------------------
\* LZW clear code (sit.md 9.6)
\* -------------------------------------------------------------------------

LzwReturned == phase = "returned" /\ hist.given.kind = "lzw"

\* C22: after every clear code the decoder has skipped
\* code_bits * (8 - (block_count mod 8)) bits, code_bits being the width the
\* clear code was read with and block_count the codes read since the last
\* clear, and has reset the width to 9 and the first free slot to 257
C22_ClearSkipsRestOfBlock ==
    LzwReturned =>
      \A k \in 1..Len(hist.lzw.clears) :
        LET c == hist.lzw.clears[k] IN
        /\ c.skipped = c.code_bits * (8 - (c.block_count % 8))
        /\ c.width = 9
        /\ c.free = LZW_FIRST_NEW



\* -------------------------------------------------------------------------
\* Arsenic block buffer and end of stream (sit15.md 6.2, 10)
\* -------------------------------------------------------------------------

\* C23: the bytes stored in the block buffer never exceed the block size
\* and nothing is written beyond the buffer, whatever zero run the
\* selectors encode
C23_BlockBufferNeverOverflows ==
    /\ phase = "running" /\ hist.given.kind = "ars"
         => /\ 0 <= stack[1].blk_len
            /\ stack[1].blk_len <= stack[1].blk_cap
            /\ Len(stack[1].blk_buf) = stack[1].blk_len
    /\ phase = "returned" /\ hist.given.kind = "ars"
         => ~hist.ars.oob


\* the decoder is at the top of the loop of produce_byte with the end of
\* stream seen, no repeat pending and the block used up, and the caller
\* wants another byte
ArsPastEnd ==
    /\ phase = "running" /\ hist.given.kind = "ars"
    /\ stack[1].pc = "produce"
    /\ stack[1].eos
    /\ stack[1].rle_repeat = 0
    /\ stack[1].out_pos >= stack[1].blk_len
    /\ Len(stack[1].out) < hist.given.uncomp_len

\* C24: a block is started only while the end-of-stream flag is not set;
\* with the flag set, a request for a byte beyond those of the blocks
\* decoded so far is fatal, and no further block is decoded
C24_NoBlockAfterEndOfStream ==
    [][/\ (phase = "running" /\ hist.given.kind = "ars"
            /\ phase' = "running" /\ stack'[1].blocks # stack[1].blocks)
          => ~stack[1].eos
       /\ ArsPastEnd
          => /\ phase' = "returned"
             /\ hist'.ars.status = "abort"
             /\ hist'.ars.msg = "sit15: unexpected end of stream"
             /\ hist'.ars.blocks = stack[1].blocks]_vars

\* a block footer set the flag, bytes of that block were delivered, and the
\* request for one more was fatal
C24_Witness ==
    /\ phase = "returned" /\ hist.given.kind = "ars"
    /\ hist.ars.status = "abort"
    /\ hist.ars.msg = "sit15: unexpected end of stream"
    /\ hist.ars.eos
    /\ hist.ars.blocks = 1
    /\ hist.ars.out # <<>>
    /\ Len(hist.given.syms) > 8



\* -------------------------------------------------------------------------
\* SIT5 directory traversal (sit.md 5.3, 5.6)
\* -------------------------------------------------------------------------

Sit5Returned == phase = "returned" /\ hist.given.kind = "sit5"

\* the loop of parse_sit5 is about to run a turn that leaves it with the
\* cursor, the count of remaining entries, the directory map and the entry
\* list it has now: every later turn does the same
Sit5Stuck ==
    /\ phase = "running" /\ hist.given.kind = "sit5"
    /\ LET s == stack[1] IN
       With(parse_sit5_turn(Sit5Base, s.cursor, s.remaining, s.dmap,
                            s.entries, s.enc),
            LAMBDA t :
         /\ ~t.done
         /\ t.st = [cursor |-> s.cursor, remaining |-> s.remaining,
                    dmap |-> s.dmap, entries |-> s.entries, enc |-> s.enc])

\* C25: the traversal loop of parse_sit5 ends on every archive: it never
\* reaches a turn that repeats forever
C25_Sit5TraversalTerminates == ~Sit5Stuck

\* C26: no turn of the loop stores outside the temporary copy of header 1
C26_Sit5StaysInsideBuffers ==
    /\ phase = "running" /\ hist.given.kind = "sit5" => ~stack[1].overrun
    /\ Sit5Returned => ~hist.sit5.overrun

M13Returned == phase = "returned" /\ hist.given.kind = "m13"

\* the head of the first list moves the current length below -1
M13BelowMinusOne ==
    /\ hist.given.kind = "m13"
    /\ Len(hist.given.head) >= 2
    /\ hist.given.head[1] = 33
    /\ hist.given.head[2] = 33

\* C27: m13_setup terminates for every input: the loop of
\* m13_build_canonical ends for every code-length list the meta-code
\* commands produce, lengths below zero included.
C27_TreeSetupTerminates == M13Returned => ~hist.m13.hang

\* C28: no code-length list stores more entries than its tree has symbols,
\* and none stores a length beyond the end of lengths[].
C28_LengthsStayInsideArray ==
    M13Returned => hist.m13.excess <= 0 /\ ~hist.m13.overrun

\* both readers have seen the input
CptHdrBoth ==
    /\ hist.given.kind = "cpthdr"
    /\ hist.cpthdr.detected # <<>>
    /\ hist.cpthdr.verdict # <<>>

CptHdrDetected == hist.cpthdr.detected[1]
CptHdrPassed == hist.cpthdr.verdict[1] = ""

\* the fields both readers require: magic, volume, and a directory offset
\* from 8 to 256 MiB
CptHdrFields ==
    LET src == input.content[1] IN
    /\ Len(src) >= 8
    /\ At(src, 0) = 1
    /\ At(src, 1) = 1
    /\ rd32be(src, 4) >= 8
    /\ rd32be(src, 4) <= 268435456

\* C29 as stated: every input cpt_detect accepts passes the header checks
\* of peel_cpt.
C29_ProbeImpliesValidation ==
    CptHdrBoth /\ CptHdrDetected => CptHdrPassed

\* C29: cpt_detect accepts exactly the inputs with magic 0x01, volume 0x01
\* and a directory offset from 8 to 256 MiB; the header checks of peel_cpt
\* pass exactly those of them whose directory offset is less than the input
\* size.
C29_ProbeAgreesWhenOffsetInside ==
    CptHdrBoth =>
      /\ CptHdrDetected <=> CptHdrFields
      /\ CptHdrPassed <=>
           CptHdrDetected /\ rd32be(input.content[1], 4) < Len(input.content[1])

C29_Witness ==
    /\ CptHdrBoth
    /\ CptHdrDetected
    /\ CptHdrPassed
    /\ rd32be(input.content[1], 4) = 12

ClassicReturned == phase = "returned" /\ hist.given.kind = "classic"

\* the name of the test file
ClassicFileName == <<102>>

\* file i was listed after the end marker of a folder start: the folder
\* stack that start was met with, and whether it was pushed
ClassicAfterEnd(i) == hist.classic[i].expect # <<>>
ClassicSaved(i) == hist.classic[i].expect[1].saved
ClassicPushed(i) == hist.classic[i].expect[1].pushed

\* C30 as stated: at every nesting depth, a file listed after the end
\* marker that matches a folder start gets the path prefix files had before
\* that folder was opened.
C30_FolderMarkersNest ==
    ClassicReturned =>
      \A i \in 1..Len(hist.classic) :
        ClassicAfterEnd(i) =>
          hist.classic[i].name = JoinDirs(ClassicSaved(i), 1) \o ClassicFileName

\* C30: as long as every folder start so far was pushed (met with fewer
\* than SIT_MAX_DEPTH folders open and a name length below 64), a file
\* listed after the end marker that matches a folder start gets the path
\* prefix files had before that folder was opened; the end marker of the
\* only folder start that was not pushed removes the enclosing folder
\* instead.
C30_PushedFoldersNest ==
    ClassicReturned =>
      \A i \in 1..Len(hist.classic) :
        ClassicAfterEnd(i) =>
          /\ hist.classic[i].drops = 0 =>
               hist.classic[i].name
                 = JoinDirs(ClassicSaved(i), 1) \o ClassicFileName
          /\ hist.classic[i].drops = 1 /\ ~ClassicPushed(i) =>
               hist.classic[i].name
                 = JoinDirs(classic_folder_end(ClassicSaved(i)), 1)
                     \o ClassicFileName

C30_Witness ==
    /\ ClassicReturned
    /\ \E i \in 1..Len(hist.classic) :
         /\ ClassicAfterEnd(i)
         /\ hist.classic[i].drops = 0
         /\ Len(ClassicSaved(i)) = SIT_MAX_DEPTH - 1
         /\ hist.classic[i].name
              = JoinDirs(ClassicSaved(i), 1) \o ClassicFileName

=============================================================================
